---- MODULE Spec2Model ----
(***************************************************************************)
(* GameHostManager: the AI game-host orchestrator of song-play.            *)
(*                                                                         *)
(* The repository holds the class in several historical variants, selected *)
(* by the variable `variant`:                                              *)
(*   "context" - src/unnamed/part_000 lines 1-779: response limiter, game  *)
(*               context tracking, intro and game end bypass the limiter;  *)
(*   "limiter" - src/src/services/gameHostManager.ts: response limiter     *)
(*               applied to every event operation, no game context.        *)
(*                                                                         *)
(*   "earliest" - src/unnamed/part_000 lines 780-1209: no limiter, no game *)
(*               context, response lengths up to 'long'; it is loaded in   *)
(*               the response length specification only.                   *)
(*                                                                         *)
(* Left out of the state: isReady and                                      *)
(* the service status, gameId, the timestamp of a round, audioUrl and      *)
(* generateVoice, which no operation reads back.                           *)
(*                                                                         *)
(* Numbers that are probabilities (the response rate, Math.random()) are   *)
(* kept in hundredths: rate 0.75 is 75, setResponseRate(2) is the input    *)
(* 200, a draw of Math.random() is a value of 0..99.                       *)
(*                                                                         *)
(* An async operation is two steps: the call (the code up to its await on  *)
(* the external service) and the resumption (the code after it), with the  *)
(* suspended call kept in `inflight` in between.                           *)
(***************************************************************************)
EXTENDS Integers, Sequences, FiniteSets, TLC

VARIABLES
    variant,             \* which variant of the class is loaded
    initialized,         \* this.initialized
    currentPersonality,  \* this.currentPersonality
    responseRate,        \* this.responseRate, in hundredths
    gameContext,         \* this.gameContext: Null or Some(context)
    inflight,            \* the calls suspended at their await, oldest first
    last,                \* what the step just taken did (operation, external call, result)
    roundLog,            \* history: the rounds recorded in the current game, oldest first
    responseLog          \* history: the responses accepted in the current game, oldest first

vars == <<variant, initialized, currentPersonality, responseRate, gameContext,
          inflight, last, roundLog, responseLog>>

-----------------------------------------------------------------------------
(* Bounds of the model *)

\* rounds recorded per game in the context tracker specification
MaxRounds == 7

\* responses accepted per game in the response history specification
MaxResponses == 7

\* rounds recorded per game in the full specification
HostMaxRounds == 2

\* responses accepted per game in the full specification
HostMaxResponses == 1

\* iterations of one testResponseLimiter call
MaxIterations == 2

\* rounds recorded per game in the scenario builder specification
ScenarioMaxRounds == 4

\* rounds recorded per game in the specification of the end of a game
GameEndMaxRounds == 2

\* the event operations suspended at once in the specification of overlapping calls
MaxInFlight == 2

\* the rounds and the recorded responses of one game in that specification
ConcurrentMaxRounds == 6

ConcurrentMaxResponses == 6

\* responses accepted per game in the scenario builder specification
ScenarioMaxResponses == 1

-----------------------------------------------------------------------------
(* Program constants *)

\* "Keep only last 5 rounds" / "Keep only last 5 responses"
HistoryLimit == 5

\* private responseRate = 0.75 (context variant)
DefaultRateContext == 75

\* private responseRate = 0.60 (limiter variant)
DefaultRateLimiter == 60

\* the rate standing for the earliest variant, which has no limiter and no rate:
\* every call generates
NoLimiterRate == 100

\* the sentinel text of a skipped response
NoResponseText == "[no response]"

-----------------------------------------------------------------------------
(* Input domains *)

Variants == {"context", "limiter"}

\* the variants with the earliest one, which has no limiter and no game context
AllVariants == Variants \cup {"earliest"}

\* startNewGame(playlistName, playerName, totalQuestions)
GameSetups ==
    { [playlistName |-> "80s Hits", playerName |-> "Ava", totalQuestions |-> 5],
      [playlistName |-> "Rock", playerName |-> "Player", totalQuestions |-> 5] }

\* addRoundResult(songTitle, songArtist, playerGuess, isCorrect, pointsEarned,
\*                playerScore, opponentScore); opponentScore 0 is also the call that
\* leaves the argument out
RoundInputs ==
    { [songTitle |-> "Take On Me", songArtist |-> "a-ha", playerGuess |-> "take on me",
       isCorrect |-> TRUE, pointsEarned |-> 10, playerScore |-> 30, opponentScore |-> 10],
      [songTitle |-> "Africa", songArtist |-> "Toto", playerGuess |-> "",
       isCorrect |-> FALSE, pointsEarned |-> 0, playerScore |-> 10, opponentScore |-> 30],
      [songTitle |-> "Africa", songArtist |-> "Toto", playerGuess |-> "africa",
       isCorrect |-> TRUE, pointsEarned |-> 20, playerScore |-> 10, opponentScore |-> 10],
      [songTitle |-> "Take On Me", songArtist |-> "a-ha", playerGuess |-> "take on me",
       isCorrect |-> TRUE, pointsEarned |-> 10, playerScore |-> 10, opponentScore |-> 0] }

\* addRoundResult and handleAnswer arguments in the full specification: a correct
\* and an incorrect round
HostRoundInputs ==
    { rd \in RoundInputs : rd.playerScore # rd.opponentScore /\ rd.opponentScore # 0 }

\* addAIResponse(response)
ResponseInputs == {"", NoResponseText, "Great!", "Wow!"}

\* startNewGame and announceGameIntro arguments in the full specification
HostSetups == { [playlistName |-> "80s Hits", playerName |-> "Ava", totalQuestions |-> 5] }

\* addAIResponse(response) in the full specification
HostResponseInputs == {"", NoResponseText, "Great!"}

\* setResponseRate(rate), in hundredths: from -1 to 2
RateInputs == {-100, -1, 0, 1, 60, 75, 99, 100, 101, 200}

\* setResponseRate(rate) in the full specification: -1, 0.6, 2
HostRateInputs == {-100, 60, 200}

\* the values of Math.random(), in hundredths
Draws == {0, 1, 59, 60, 74, 75, 98, 99}

\* the draws of the limiter trial in the full specification
TrialDraws == {0, 60, 99}

\* (options.responseLength, draw of getRandomResponseLength) in the full specification
LengthChoices == { <<"", 59>>, <<"", 60>>, <<"long", 0>> }

\* initialize(personalityId): two known personas, an unknown one, and the opt-out
PersonaInputs == {"riley", "jordan", "zelda", "none"}

\* options.responseLength; "" is an option not given
LengthOptions == {"", "short", "medium", "long"}

\* the draws of getRandomResponseLength around its thresholds
LengthDraws == {0, 59, 60, 89, 90, 99}

\* (playerName, playerScore, songTitle, songArtist, playerGuess) of
\* celebrateCorrectAnswer and handleIncorrectAnswer
AnswerInputs ==
    { [playerName |-> "Ava", playerScore |-> 30, songTitle |-> "Take On Me",
       songArtist |-> "a-ha", playerGuess |-> "take on me"],
      [playerName |-> "Ava", playerScore |-> 0, songTitle |-> "Africa",
       songArtist |-> "", playerGuess |-> ""] }

\* introduceQuestion(questionNumber, totalQuestions, playlistName)
QuestionInputs ==
    { [questionNumber |-> 1, totalQuestions |-> 5, playlistName |-> "80s Hits"] }

\* handleGameEnd(finalScore, totalQuestions, playlistName, playerName)
GameEndInputs ==
    { [finalScore |-> 35, totalQuestions |-> 5, playlistName |-> "80s Hits",
       playerName |-> "Ava"],
      [finalScore |-> 0, totalQuestions |-> 5, playlistName |-> "Rock",
       playerName |-> "Player"] }

-----------------------------------------------------------------------------
(* Optional values: null is the empty sequence *)

Null == <<>>

Some(v) == <<v>>

\* the observation left by a step of operation op that called nothing and returned nothing
Obs(op) ==
    [op |-> op,             \* the operation the step belongs to
     step |-> "call",       \* "call": up to its await or return; "resume": after its await
     caller |-> "",         \* "handleAnswer" when the operation was dispatched by it
     external |-> "none",   \* the external service call the step made
     trial |-> "none",      \* the limiter trial the step made: "none", "pass", "fail"
     rateArg |-> 0,         \* setResponseRate's argument
     iterations |-> 0,      \* testResponseLimiter's argument
     responseCount |-> 0,   \* testResponseLimiter's count of passed trials
     returned |-> "none",   \* initialize's return value: "none", "true", "false"
     arg |-> "",            \* the string argument: personalityId, response text,
                            \* base scenario, options.responseLength
     parts |-> <<>>,        \* the strings buildRichScenario appended, in order; the
                            \* fields of a returned object, as strings
     context |-> Null,      \* the context getGameContext returned
     stale |-> FALSE,       \* whether the call resumed was issued in an earlier game
     request |-> Null,      \* the request sent to generateResponse
     service |-> Null,      \* what the awaited external call did
     result |-> Null]       \* the HostResponse returned

-----------------------------------------------------------------------------
(* Game context tracker *)

Max(a, b) == IF a >= b THEN a ELSE b

Min(a, b) == IF a <= b THEN a ELSE b

\* mutant: evicts the newest entry instead of the oldest (pop for shift)
PushBounded_DropsNewest(s, x) ==
    LET pushed == Append(s, x)
    IN  IF Len(pushed) > HistoryLimit THEN SubSeq(pushed, 1, HistoryLimit) ELSE pushed

\* mutant: nothing is evicted
PushBounded_NoEviction(s, x) == Append(s, x)

\* array.push(x), then array.shift() when the length exceeds 5
PushBounded(s, x) ==
    LET pushed == Append(s, x)
    IN  IF Len(pushed) > HistoryLimit THEN Tail(pushed) ELSE pushed

\* the context object startNewGame assigns
FreshContext(setup) ==
    [playlistName |-> setup.playlistName,
     playerName |-> setup.playerName,
     totalQuestions |-> setup.totalQuestions,
     currentRound |-> 0,
     correctCount |-> 0,
     incorrectCount |-> 0,
     currentStreak |-> 0,
     longestStreak |-> 0,
     playerScore |-> 0,
     opponentScore |-> 0,
     recentRounds |-> <<>>,
     recentAIResponses |-> <<>>]

\* mutant: the longest streak is not raised with the current one
UpdateStats_NoLongest(ctx, isCorrect) ==
    IF isCorrect
    THEN [ctx EXCEPT !.correctCount = @ + 1,
                     !.currentStreak = @ + 1]
    ELSE [ctx EXCEPT !.incorrectCount = @ + 1,
                     !.currentStreak = 0]

\* mutant: an incorrect round leaves the current streak as it was
UpdateStats_NoReset(ctx, isCorrect) ==
    IF isCorrect
    THEN [ctx EXCEPT !.correctCount = @ + 1,
                     !.currentStreak = @ + 1,
                     !.longestStreak = Max(@, ctx.currentStreak + 1)]
    ELSE [ctx EXCEPT !.incorrectCount = @ + 1]

\* mutant: an incorrect round is not counted
UpdateStats_IncorrectUncounted(ctx, isCorrect) ==
    IF isCorrect
    THEN [ctx EXCEPT !.correctCount = @ + 1,
                     !.currentStreak = @ + 1,
                     !.longestStreak = Max(@, ctx.currentStreak + 1)]
    ELSE [ctx EXCEPT !.currentStreak = 0]

\* mutant: the longest streak is raised to the streak before the round
UpdateStats_LongestLags(ctx, isCorrect) ==
    IF isCorrect
    THEN [ctx EXCEPT !.correctCount = @ + 1,
                     !.currentStreak = @ + 1,
                     !.longestStreak = Max(@, ctx.currentStreak)]
    ELSE [ctx EXCEPT !.incorrectCount = @ + 1,
                     !.currentStreak = 0]

\* "Update stats": the counters and streaks after a round
UpdateStats(ctx, isCorrect) ==
    IF isCorrect
    THEN [ctx EXCEPT !.correctCount = @ + 1,
                     !.currentStreak = @ + 1,
                     !.longestStreak = Max(@, ctx.currentStreak + 1)]
    ELSE [ctx EXCEPT !.incorrectCount = @ + 1,
                     !.currentStreak = 0]

\* mutant: the rounds are numbered from 0
RoundData_ZeroBased(roundNumber, rd) ==
    [roundNumber |-> roundNumber - 1,
     songTitle |-> rd.songTitle,
     songArtist |-> rd.songArtist,
     playerGuess |-> rd.playerGuess,
     isCorrect |-> rd.isCorrect,
     pointsEarned |-> rd.pointsEarned,
     playerScore |-> rd.playerScore,
     opponentScore |-> rd.opponentScore]

\* the RoundData object addRoundResult builds (timestamp left out)
RoundData(roundNumber, rd) ==
    [roundNumber |-> roundNumber,
     songTitle |-> rd.songTitle,
     songArtist |-> rd.songArtist,
     playerGuess |-> rd.playerGuess,
     isCorrect |-> rd.isCorrect,
     pointsEarned |-> rd.pointsEarned,
     playerScore |-> rd.playerScore,
     opponentScore |-> rd.opponentScore]

\* mutant: the round counter is not advanced
RecordRound_NoCount(ctx, rd) ==
    LET stats == UpdateStats(ctx, rd.isCorrect)
        scored == [stats EXCEPT !.playerScore = rd.playerScore,
                                !.opponentScore = rd.opponentScore]
    IN  [scored EXCEPT !.recentRounds =
                           PushBounded(@, RoundData(scored.currentRound, rd))]

\* mutant: the player's score is accumulated from the points of the round
RecordRound_Accumulates(ctx, rd) ==
    LET counted == [ctx EXCEPT !.currentRound = @ + 1]
        stats == UpdateStats(counted, rd.isCorrect)
        scored == [stats EXCEPT !.playerScore = @ + rd.pointsEarned,
                                !.opponentScore = rd.opponentScore]
    IN  [scored EXCEPT !.recentRounds =
                           PushBounded(@, RoundData(scored.currentRound, rd))]

\* mutant: the scores of the round are written into the records kept as well
RecordRound_RewritesHistory(ctx, rd) ==
    LET counted == [ctx EXCEPT !.currentRound = @ + 1]
        stats == UpdateStats(counted, rd.isCorrect)
        scored == [stats EXCEPT !.playerScore = rd.playerScore,
                                !.opponentScore = rd.opponentScore]
        pushed == PushBounded(scored.recentRounds, RoundData(scored.currentRound, rd))
    IN  [scored EXCEPT !.recentRounds =
                           [i \in 1..Len(pushed) |->
                               [pushed[i] EXCEPT !.playerScore = rd.playerScore]]]

\* the body of addRoundResult on an active context
RecordRound(ctx, rd) ==
    LET counted == [ctx EXCEPT !.currentRound = @ + 1]
        stats == UpdateStats(counted, rd.isCorrect)
        scored == [stats EXCEPT !.playerScore = rd.playerScore,
                                !.opponentScore = rd.opponentScore]
    IN  [scored EXCEPT !.recentRounds =
                           PushBounded(@, RoundData(scored.currentRound, rd))]

\* mutant: the sentinel of a skipped response is recorded like any text
AcceptsResponse_AllowsSentinel(context, response) ==
    ~(context = Null \/ response = "")

\* whether addAIResponse records the text
AcceptsResponse(context, response) ==
    ~(context = Null \/ response = "" \/ response = NoResponseText)

\* mutant: the oldest response is kept when a sixth is recorded
RecordResponse_NoShift(context, response) ==
    IF AcceptsResponse(context, response)
    THEN Some([context[1] EXCEPT !.recentAIResponses = Append(@, response)])
    ELSE context

\* the context after addAIResponse(response)
RecordResponse(context, response) ==
    IF AcceptsResponse(context, response)
    THEN Some([context[1] EXCEPT !.recentAIResponses = PushBounded(@, response)])
    ELSE context

\* the response history after addAIResponse(response)
LogResponse(context, log, response) ==
    IF AcceptsResponse(context, response) THEN Append(log, response) ELSE log

\* the suspended calls once a new game has begun: those of event operations are
\* marked as issued in an earlier game (the mark is history, no field of the class)
Outdated(calls) ==
    [i \in 1..Len(calls) |->
        IF calls[i].op = "initialize" THEN calls[i] ELSE [calls[i] EXCEPT !.stale = TRUE]]

\* mutant: the responses of the previous game are carried into the new one
StartNewGame_KeepsResponses(setup) ==
    /\ variant = "context"
    /\ gameContext' = Some([FreshContext(setup) EXCEPT
                                !.recentAIResponses =
                                    IF gameContext = Null
                                    THEN <<>>
                                    ELSE gameContext[1].recentAIResponses])
    /\ roundLog' = <<>>
    /\ responseLog' = responseLog
    /\ last' = Obs("startNewGame")
    /\ inflight' = Outdated(inflight)
    /\ UNCHANGED <<variant, initialized, currentPersonality, responseRate>>

StartNewGame(setup) ==
    /\ variant = "context"
    /\ gameContext' = Some(FreshContext(setup))
    /\ roundLog' = <<>>
    /\ responseLog' = <<>>
    /\ last' = Obs("startNewGame")
    /\ inflight' = Outdated(inflight)
    /\ UNCHANGED <<variant, initialized, currentPersonality, responseRate>>

\* mutant: a missing context is created on the first round
AddRoundResult_CreatesContext(rd) ==
    /\ variant = "context"
    /\ LET before == IF gameContext = Null
                     THEN FreshContext([playlistName |-> "", playerName |-> "Player",
                                        totalQuestions |-> 0])
                     ELSE gameContext[1]
           ctx == RecordRound(before, rd)
       IN  /\ gameContext' = Some(ctx)
           /\ roundLog' = Append(roundLog, RoundData(ctx.currentRound, rd))
    /\ last' = Obs("addRoundResult")
    /\ UNCHANGED <<variant, initialized, currentPersonality, responseRate, inflight,
                   responseLog>>

AddRoundResult(rd) ==
    /\ variant = "context"
    /\ IF gameContext = Null
       THEN UNCHANGED <<gameContext, roundLog>>
       ELSE LET ctx == RecordRound(gameContext[1], rd)
            IN  /\ gameContext' = Some(ctx)
                /\ roundLog' = Append(roundLog, RoundData(ctx.currentRound, rd))
    /\ last' = Obs("addRoundResult")
    /\ UNCHANGED <<variant, initialized, currentPersonality, responseRate, inflight,
                   responseLog>>

AddAIResponse(response) ==
    /\ variant = "context"
    /\ gameContext' = RecordResponse(gameContext, response)
    /\ responseLog' = LogResponse(gameContext, responseLog, response)
    /\ last' = [Obs("addAIResponse") EXCEPT !.arg = response]
    /\ UNCHANGED <<variant, initialized, currentPersonality, responseRate, inflight,
                   roundLog>>

-----------------------------------------------------------------------------
(* Scenario builder *)

\* the player guesses that are empty after trim(), among those the model passes
BlankGuesses == {"", " "}

\* the status glyph of a round in the scenario
StatusOf(isCorrect) == IF isCorrect THEN "(check)" ELSE "(cross)"

\* the lines recentRounds.forEach appends
RECURSIVE RoundLines(_)
RoundLines(rounds) ==
    IF rounds = <<>>
    THEN ""
    ELSE LET round == Head(rounds)
         IN  "  " \o ToString(round.roundNumber) \o ". " \o StatusOf(round.isCorrect)
             \o " \"" \o round.songTitle \o "\" by " \o round.songArtist
             \o (IF round.playerGuess # ""
                 THEN " (guessed: \"" \o round.playerGuess \o "\")"
                 ELSE "")
             \o "\n" \o RoundLines(Tail(rounds))

\* the lines recentAIResponses.forEach appends
RECURSIVE ResponseLines(_)
ResponseLines(responses) ==
    IF responses = <<>>
    THEN ""
    ELSE "  \"" \o Head(responses) \o "\"\n" \o ResponseLines(Tail(responses))

\* mutant: the difference is printed with its sign (Math.abs left out)
ScorePhrase_SignedDelta(playerName, scoreDelta) ==
    IF scoreDelta > 0
    THEN " (" \o playerName \o " leading by " \o ToString(scoreDelta) \o ")\n"
    ELSE IF scoreDelta < 0
         THEN " (" \o playerName \o " trailing by " \o ToString(scoreDelta) \o ")\n"
         ELSE " (tied game)\n"

\* the phrase after the scores: leading by, trailing by, or tied game
ScorePhrase(playerName, scoreDelta) ==
    IF scoreDelta > 0
    THEN " (" \o playerName \o " leading by " \o ToString(scoreDelta) \o ")\n"
    ELSE IF scoreDelta < 0
         THEN " (" \o playerName \o " trailing by " \o ToString(0 - scoreDelta) \o ")\n"
         ELSE " (tied game)\n"

\* mutant: the streak callouts start one round early
StreakParts_OneEarly(ctx) ==
    (IF ctx.currentStreak > 0
     THEN << "- Current Streak: " \o ToString(ctx.currentStreak) \o " correct in a row!\n" >>
     ELSE <<>>)
    \o (IF ctx.longestStreak > 1
        THEN << "- Best Streak: " \o ToString(ctx.longestStreak) \o " correct answers\n" >>
        ELSE <<>>)

\* "Streak information": the callouts appended for the streaks
StreakParts(ctx) ==
    (IF ctx.currentStreak > 1
     THEN << "- Current Streak: " \o ToString(ctx.currentStreak) \o " correct in a row!\n" >>
     ELSE <<>>)
    \o (IF ctx.longestStreak > 2
        THEN << "- Best Streak: " \o ToString(ctx.longestStreak) \o " correct answers\n" >>
        ELSE <<>>)

\* the strings buildRichScenario appends to the base scenario for the context ctx,
\* in the order of its += statements (the lines of a forEach taken together)
ContextParts(ctx, playerGuess) ==
    << "\n\nADDITIONAL CONTEXT:\n",
       "- Game Progress: Round " \o ToString(ctx.currentRound) \o "/"
       \o ToString(ctx.totalQuestions) \o " of " \o ctx.playlistName \o " playlist\n",
       "- Overall Performance: " \o ToString(ctx.correctCount) \o " correct, "
       \o ToString(ctx.incorrectCount) \o " incorrect this game\n",
       "- Current Scores: " \o ctx.playerName \o " " \o ToString(ctx.playerScore)
       \o ", Opponent " \o ToString(ctx.opponentScore),
       ScorePhrase(ctx.playerName, ctx.playerScore - ctx.opponentScore) >>
    \o StreakParts(ctx)
    \o (IF playerGuess \notin BlankGuesses
        THEN << "- Player's Exact Words: \"" \o playerGuess \o "\"\n" >>
        ELSE <<>>)
    \o (IF Len(ctx.recentRounds) > 0
        THEN << "- Recent Rounds:\n", RoundLines(ctx.recentRounds) >>
        ELSE <<>>)
    \o (IF Len(ctx.recentAIResponses) > 0
        THEN << "- Recent AI Responses (AVOID REPEATING THESE):\n",
                ResponseLines(ctx.recentAIResponses) >>
        ELSE <<>>)
    \o << "\nMake your response unique and contextually relevant to this specific game moment!" >>

\* the strings of a sequence joined in order
RECURSIVE Concat(_)
Concat(parts) == IF parts = <<>> THEN "" ELSE Head(parts) \o Concat(Tail(parts))

\* the block buildRichScenario appends for the context ctx
ContextBlock(ctx, playerGuess) == Concat(ContextParts(ctx, playerGuess))

\* mutant: the block is appended for a missing context too, with what there is of it
BuildRichScenario_AlwaysAppends(baseScenario, playerGuess, context) ==
    IF context = Null
    THEN baseScenario \o "\n\nADDITIONAL CONTEXT:\n"
    ELSE baseScenario \o ContextBlock(context[1], playerGuess)

\* buildRichScenario(baseScenario, songTitle, songArtist, playerGuess, isCorrect) on
\* the game context; songTitle, songArtist and isCorrect are not read
BuildRichScenario(baseScenario, playerGuess, context) ==
    IF context = Null
    THEN baseScenario
    ELSE baseScenario \o ContextBlock(context[1], playerGuess)

\* the base scenario of celebrateCorrectAnswer
CorrectScenario(playerName, songTitle, songArtist, playerScore) ==
    playerName \o " correctly guessed \"" \o songTitle \o "\" by " \o songArtist
    \o " and earned 10 points! Their score is now " \o ToString(playerScore) \o "."

\* the base scenario of handleIncorrectAnswer
IncorrectScenario(playerName, songTitle, songArtist) ==
    playerName \o " guessed incorrectly. The correct answer was \"" \o songTitle
    \o "\" by " \o songArtist \o "."

\* the scenario of introduceQuestion
QuestionScenario(q) ==
    "Question " \o ToString(q.questionNumber) \o " of " \o ToString(q.totalQuestions)
    \o " from the " \o q.playlistName \o " playlist is starting. Build excitement!"

\* mutant: the correct answers are rounded to the nearest number (round for floor)
GameEndScenario_Nearest(v, g) ==
    IF v = "earliest"
    THEN g.playerName \o " finished the " \o g.playlistName
         \o " playlist with a final score of " \o ToString(g.finalScore) \o " out of "
         \o ToString(g.totalQuestions) \o "! Celebrate their performance!"
    ELSE g.playerName \o " finished the " \o g.playlistName \o " playlist! They got "
         \o ToString((g.finalScore + 5) \div 10) \o " questions correct out of "
         \o ToString(g.totalQuestions) \o " total questions, earning "
         \o ToString(g.finalScore) \o " points. Celebrate their performance!"

\* the scenario of handleGameEnd; the earliest variant counts no correct answers
GameEndScenario(v, g) ==
    IF v = "earliest"
    THEN g.playerName \o " finished the " \o g.playlistName
         \o " playlist with a final score of " \o ToString(g.finalScore) \o " out of "
         \o ToString(g.totalQuestions) \o "! Celebrate their performance!"
    ELSE g.playerName \o " finished the " \o g.playlistName \o " playlist! They got "
         \o ToString(g.finalScore \div 10) \o " questions correct out of "
         \o ToString(g.totalQuestions) \o " total questions, earning "
         \o ToString(g.finalScore) \o " points. Celebrate their performance!"

\* the scenario of announceGameIntro; the limiter variant leaves the questions out
IntroScenario(v, setup) ==
    "Welcome " \o setup.playerName \o " to Song Quiz! They're about to play the "
    \o setup.playlistName \o " playlist"
    \o (IF v = "context"
        THEN " with " \o ToString(setup.totalQuestions) \o " questions"
        ELSE "")
    \o ". Get them excited to start!"

\* the scenario of a round result: enriched by the context variant only
RoundScenario(v, baseScenario, playerGuess, context) ==
    IF v = "context"
    THEN BuildRichScenario(baseScenario, playerGuess, context)
    ELSE baseScenario

\* buildRichScenario applied to a base scenario and a guess on the current context
ApplyBuildRichScenario(baseScenario, playerGuess) ==
    /\ variant = "context"
    /\ last' = [Obs("buildRichScenario") EXCEPT
                    !.arg = baseScenario,
                    !.parts = (IF gameContext = Null
                               THEN <<>>
                               ELSE ContextParts(gameContext[1], playerGuess)),
                    !.returned = BuildRichScenario(baseScenario, playerGuess, gameContext)]
    /\ UNCHANGED <<variant, initialized, currentPersonality, responseRate, gameContext,
                   inflight, roundLog, responseLog>>

\* getGameContext(): the context itself, or null
GetGameContext ==
    /\ variant = "context"
    /\ last' = [Obs("getGameContext") EXCEPT !.context = gameContext]
    /\ UNCHANGED <<variant, initialized, currentPersonality, responseRate, gameContext,
                   inflight, roundLog, responseLog>>

\* the text of getContextSummary()
ContextSummary(context) ==
    IF context = Null THEN "No active game context"
    ELSE LET ctx == context[1]
         IN  "Game: " \o ctx.playlistName
             \o " | Round: " \o ToString(ctx.currentRound) \o "/" \o ToString(ctx.totalQuestions)
             \o " | Score: " \o ToString(ctx.playerScore)
             \o " | Streak: " \o ToString(ctx.currentStreak)
             \o " | Record: " \o ToString(ctx.correctCount) \o "W-"
             \o ToString(ctx.incorrectCount) \o "L"

GetContextSummary ==
    /\ variant = "context"
    /\ last' = [Obs("getContextSummary") EXCEPT !.returned = ContextSummary(gameContext)]
    /\ UNCHANGED <<variant, initialized, currentPersonality, responseRate, gameContext,
                   inflight, roundLog, responseLog>>

-----------------------------------------------------------------------------
(* Response rate limiter *)

\* mutant: the lower clamp is missing
Clamp_NoFloor(rate) == Min(100, rate)

\* Math.max(0, Math.min(1, rate)), in hundredths
Clamp(rate) == Max(0, Min(100, rate))

\* mutant: the comparison admits a draw equal to the rate
ShouldGenerateResponse_AtMost(rand, rate) == rand <= rate

\* Math.random() < this.responseRate, for the draw rand
ShouldGenerateResponse(rand, rate) == rand < rate

SetResponseRate(rate) ==
    /\ responseRate' = Clamp(rate)
    /\ last' = [Obs("setResponseRate") EXCEPT !.rateArg = rate]
    /\ UNCHANGED <<variant, initialized, currentPersonality, gameContext, inflight,
                   roundLog, responseLog>>

\* the number of draws of the sequence that pass the trial: responseCount
RECURSIVE ResponseCount(_, _)
ResponseCount(draws, rate) ==
    IF draws = <<>>
    THEN 0
    ELSE (IF ShouldGenerateResponse(Head(draws), rate) THEN 1 ELSE 0)
         + ResponseCount(Tail(draws), rate)

\* testResponseLimiter(iterations), the draws being those of its Math.random() calls;
\* it only logs, the counts are kept in the observation
TestResponseLimiter(draws) ==
    /\ last' = [Obs("testResponseLimiter") EXCEPT
                    !.iterations = Len(draws),
                    !.responseCount = ResponseCount(draws, responseRate)]
    /\ UNCHANGED <<variant, initialized, currentPersonality, responseRate, gameContext,
                   inflight, roundLog, responseLog>>

-----------------------------------------------------------------------------
(* Fallback text bank *)

KnownPersonas == {"riley", "willow", "alex", "jordan"}

\* The tables are object literals, and table[key] with a string key finds the
\* members every object inherits from Object.prototype as well as the literal's
\* own keys: two of those names
InheritedKeys == {"constructor", "toString"}

\* stands for the function table[key] evaluates to for an inherited key: a value
\* that is truthy, is no string and has none of the properties the code reads
InheritedMember == "[inherited member]"

\* how a template literal renders a property that is undefined
Undefined == "undefined"

\* fallbacks[persona] || fallbacks.riley : the persona whose table is used, or the
\* inherited member the lookup found
TableOf(persona) ==
    IF persona \in KnownPersonas THEN persona
    ELSE IF persona \in InheritedKeys THEN InheritedMember
    ELSE "riley"

\* getCharacterInfo(characterId): characters[characterId] || characters.riley,
\* emojis by name; a function has a name and neither emoji nor personality
GetCharacterInfo(characterId) ==
    LET t == TableOf(characterId)
    IN  CASE t = "riley" ->
                [name |-> "Riley", emoji |-> "(microphone)", personality |-> "energetic"]
          [] t = "willow" ->
                [name |-> "Willow", emoji |-> "(herb)", personality |-> "wise"]
          [] t = "alex" ->
                [name |-> "Alex", emoji |-> "(headphone)", personality |-> "cool"]
          [] t = "jordan" ->
                [name |-> "Jordan", emoji |-> "(smile)", personality |-> "funny"]
          [] t = InheritedMember ->
                [name |-> (IF characterId = "constructor" THEN "Object" ELSE characterId),
                 emoji |-> Undefined, personality |-> Undefined]

\* character.emoji as the fallback texts interpolate it
EmojiOf(persona) == GetCharacterInfo(persona).emoji

\* getFallbackResponse(gamePhase, songTitle, songArtist) for this.currentPersonality
GetFallbackResponse(persona, gamePhase, songTitle, songArtist) ==
    LET named == songTitle # "" /\ songArtist # ""
        that == "That was \"" \o songTitle \o "\" by " \o songArtist
        t == TableOf(persona)
    IN  IF t = InheritedMember THEN "Great job playing!"   \* it has no phase entries
        ELSE
        CASE gamePhase = "question_start" ->
                (CASE t = "riley" -> "Let's hear this one!"
                   [] t = "willow" -> "Listen deeply to this melody"
                   [] t = "alex" -> "Here's a good track"
                   [] t = "jordan" -> "Ready for this one?")
          [] gamePhase = "correct_answer" ->
                (CASE t = "riley" -> "YES! You nailed it!"
                   [] t = "willow" -> "Beautifully done!"
                   [] t = "alex" -> "Nice! Good ear"
                   [] t = "jordan" -> "BAM! You crushed it!")
          [] gamePhase = "wrong_answer" ->
                (CASE t = "riley" ->
                        IF named THEN that \o "!" ELSE "Not quite, but keep going!"
                   [] t = "willow" ->
                        IF named THEN that ELSE "Every song teaches us something"
                   [] t = "alex" ->
                        IF named THEN that ELSE "Keep listening, you'll get it"
                   [] t = "jordan" ->
                        IF named THEN "Oops! " \o that ELSE "So close, yet so far!")
          [] gamePhase = "round_end" ->
                (CASE t = "riley" -> "Keep it up!"
                   [] t = "willow" -> "You're growing with each song"
                   [] t = "alex" -> "Solid round"
                   [] t = "jordan" -> "This is getting interesting!")
          [] gamePhase = "game_end" ->
                (CASE t = "riley" -> "Amazing game!"
                   [] t = "willow" -> "What a meaningful journey"
                   [] t = "alex" -> "Good session!"
                   [] t = "jordan" -> "What a wild ride!")
          [] OTHER -> "Great job playing!"

\* getFallbackGameIntro(playlistName)
GetFallbackGameIntro(persona, playlistName) ==
    LET t == TableOf(persona)
        e == EmojiOf(persona)
    IN  CASE t = "riley" ->
                e \o " Welcome to Song Quiz! Get ready to rock the " \o playlistName
                  \o " playlist! Let's see what you've got!"
          [] t = "willow" ->
                e \o " Welcome, music lover. Today we explore the beautiful sounds of the "
                  \o playlistName \o ". Listen with your heart."
          [] t = "alex" ->
                e \o " Hey there! Time for some " \o playlistName
                  \o " vibes. Let's see if you know your music."
          [] t = "jordan" ->
                e \o " Welcome to the show! The " \o playlistName
                  \o " are calling - let's see if you can answer! Get ready for some fun!"
          [] t = InheritedMember -> InheritedMember

\* getFallbackGameEndResponse(correctAnswers, totalQuestions, finalScore)
GetFallbackGameEndResponse(persona, correctAnswers, totalQuestions, finalScore) ==
    LET t == TableOf(persona)
        e == EmojiOf(persona)
        c == ToString(correctAnswers)
        q == ToString(totalQuestions)
        f == ToString(finalScore)
    IN  CASE t = "riley" ->
                e \o " Amazing game! You got " \o c \o " out of " \o q
                  \o " questions correct for " \o f \o " points!"
          [] t = "willow" ->
                e \o " What a meaningful journey. " \o c \o " correct answers out of " \o q
                  \o ", earning you " \o f \o " points."
          [] t = "alex" ->
                e \o " Good session! " \o c \o " out of " \o q \o " right, " \o f
                  \o " points total."
          [] t = "jordan" ->
                e \o " What a wild ride! " \o c \o " correct out of " \o q
                  \o " questions - that's " \o f \o " points of pure fun!"
          [] t = InheritedMember -> InheritedMember

\* getFallbackResponse applied to a phase and a song for the current persona
ApplyGetFallbackResponse(gamePhase, song) ==
    /\ last' = [Obs("getFallbackResponse") EXCEPT
                    !.arg = gamePhase,
                    !.parts = song,
                    !.returned = GetFallbackResponse(currentPersonality, gamePhase,
                                                     song[1], song[2])]
    /\ UNCHANGED <<variant, initialized, currentPersonality, responseRate, gameContext,
                   inflight, roundLog, responseLog>>

\* getCharacterInfo applied to a character id
ApplyGetCharacterInfo(characterId) ==
    LET info == GetCharacterInfo(characterId)
    IN  /\ last' = [Obs("getCharacterInfo") EXCEPT
                        !.arg = characterId,
                        !.parts = <<info.name, info.emoji, info.personality>>]
        /\ UNCHANGED <<variant, initialized, currentPersonality, responseRate,
                       gameContext, inflight, roundLog, responseLog>>

-----------------------------------------------------------------------------
(* Host orchestrator *)

EventOps ==
    {"celebrateCorrectAnswer", "handleIncorrectAnswer", "introduceQuestion",
     "handleGameEnd", "announceGameIntro"}

\* a HostResponse; error "" is no error, noResponse FALSE is no flag
HostResponse(text, success, error, noResponse) ==
    [text |-> text, success |-> success, error |-> error, noResponse |-> noResponse]

\* the static text each operation returns before initialize succeeded
NotInitializedText(op) ==
    CASE op = "celebrateCorrectAnswer" -> "Nice job!"
      [] op = "handleIncorrectAnswer" -> "Nice try!"
      [] op = "introduceQuestion" -> "Here's your next song!"
      [] op = "handleGameEnd" -> "Thanks for playing!"
      [] op = "announceGameIntro" -> "Welcome to Song Quiz!"

\* mutant: the not-initialized result carries the flag of a skipped response
NotInitializedResult_Flagged(op) ==
    HostResponse(NotInitializedText(op), FALSE, "Host not initialized", TRUE)

NotInitializedResult(op) ==
    HostResponse(NotInitializedText(op), FALSE, "Host not initialized", FALSE)

\* the result of an operation the limiter skipped
SkipResult == HostResponse(NoResponseText, TRUE, "", TRUE)

\* mutant: every operation of either variant runs the limiter trial
UsesLimiter_Always(v, op) == TRUE

\* mutant: no operation runs the limiter trial
UsesLimiter_Never(v, op) == FALSE

\* whether the operation runs the limiter trial ("Check response limiter"); the
\* context variant lets game intro and game end bypass it, the limiter variant
\* does not, the earliest variant has no limiter
UsesLimiter(v, op) ==
    CASE v = "context" ->
            op \in {"celebrateCorrectAnswer", "handleIncorrectAnswer", "introduceQuestion"}
      [] v = "limiter" -> TRUE
      [] v = "earliest" -> FALSE

\* mutant: every event operation records the text it was given
TracksResponse_EveryOperation(v, op) == v = "context"

\* whether the operation records a successful response with addAIResponse
TracksResponse(v, op) ==
    /\ v = "context"
    /\ op \in {"celebrateCorrectAnswer", "handleIncorrectAnswer", "announceGameIntro"}

\* getRandomResponseLength() for the draw rand: 60% short and 40% medium, and in
\* the earliest variant 60% short, 30% medium, 10% long
GetRandomResponseLength(v, rand) ==
    IF rand < 60 THEN "short"
    ELSE IF v = "earliest" /\ rand >= 90 THEN "long"
    ELSE "medium"

\* mutant: handleGameEnd takes the length the caller passes
ResponseLengthOf_GameEndOption(v, op, option, rand) ==
    CASE op \in {"celebrateCorrectAnswer", "handleIncorrectAnswer"} ->
            IF option # "" THEN option ELSE GetRandomResponseLength(v, rand)
      [] op = "introduceQuestion" -> IF option # "" THEN option ELSE "short"
      [] op = "announceGameIntro" -> IF option # "" THEN option ELSE "medium"
      [] op = "handleGameEnd" -> IF option # "" THEN option ELSE "long"

\* the responseLength of the request; option "" is an option not given
ResponseLengthOf(v, op, option, rand) ==
    CASE op \in {"celebrateCorrectAnswer", "handleIncorrectAnswer"} ->
            IF option # "" THEN option ELSE GetRandomResponseLength(v, rand)
      [] op = "introduceQuestion" -> IF option # "" THEN option ELSE "short"
      [] op = "announceGameIntro" -> IF option # "" THEN option ELSE "medium"
      [] op = "handleGameEnd" -> "long"

\* flowStep.id of the request
FlowStepOf(op) ==
    CASE op \in {"celebrateCorrectAnswer", "handleIncorrectAnswer"} -> "round_result"
      [] op \in {"introduceQuestion", "announceGameIntro"} -> "question_start"
      [] op = "handleGameEnd" -> "game_result"

\* mutant: a streak of 0 is sent as it is (?? for ||)
StreakCountOf_ZeroKept(v, op, context) ==
    IF op # "celebrateCorrectAnswer" THEN 0
    ELSE IF v = "context" /\ context # Null
         THEN context[1].currentStreak
         ELSE 1

\* settings.streakCount of the request (0: the request has none):
\* this.gameContext?.currentStreak || 1, and the constant 1 in the limiter variant
StreakCountOf(v, op, context) ==
    IF op # "celebrateCorrectAnswer" THEN 0
    ELSE IF v = "context" /\ context # Null /\ context[1].currentStreak # 0
         THEN context[1].currentStreak
         ELSE 1

\* the request handed to aiHostService.generateResponse
Request(v, op, context, option, lenRand, scenario) ==
    [scenario |-> scenario,
     flowStep |-> FlowStepOf(op),
     responseLength |-> ResponseLengthOf(v, op, option, lenRand),
     streakCount |-> StreakCountOf(v, op, context)]

\* a call suspended at its await
Pending(op) ==
    [op |-> op, songTitle |-> "", songArtist |-> "", playlistName |-> "",
     totalQuestions |-> 0, finalScore |-> 0, personalityId |-> "",
     stale |-> FALSE]       \* whether a new game has begun since the call was issued

\* mutant: the limiter trial comes before the initialized check
EventOutcome_LimiterFirst(op, rand) ==
    IF UsesLimiter(variant, op) /\ ~ShouldGenerateResponse(rand, responseRate)
    THEN "skipped"
    ELSE IF ~initialized THEN "notInitialized" ELSE "generate"

\* how a call of an event operation ends: before the limiter, at the limiter, or
\* at the await on generateResponse
EventOutcome(op, rand) ==
    IF ~initialized THEN "notInitialized"
    ELSE IF UsesLimiter(variant, op) /\ ~ShouldGenerateResponse(rand, responseRate)
         THEN "skipped"
         ELSE "generate"

\* the part all event operations share, up to the await: sets last and inflight;
\* option is options.responseLength, read only once the request is being built
EventCall(op, caller, pend, option, request, rand) ==
    LET outcome == EventOutcome(op, rand)
        obs == [Obs(op) EXCEPT !.caller = caller]
    IN  CASE outcome = "notInitialized" ->
                /\ last' = [obs EXCEPT !.result = Some(NotInitializedResult(op))]
                /\ UNCHANGED inflight
          [] outcome = "skipped" ->
                /\ last' = [obs EXCEPT !.trial = "fail", !.result = Some(SkipResult)]
                /\ UNCHANGED inflight
          [] outcome = "generate" ->
                /\ last' = [obs EXCEPT
                                !.trial = (IF UsesLimiter(variant, op) THEN "pass" ELSE "none"),
                                !.external = "generateResponse",
                                !.arg = option,
                                !.request = Some(request)]
                /\ inflight' = Append(IF op = "announceGameIntro" /\ variant = "context"
                                       THEN Outdated(inflight)   \* it has begun a game
                                       ELSE inflight,
                                       pend)

CelebrateCorrectAnswer(a, option, rand, lenRand) ==
    /\ EventCall("celebrateCorrectAnswer", "",
                 [Pending("celebrateCorrectAnswer") EXCEPT
                      !.songTitle = a.songTitle, !.songArtist = a.songArtist],
                 option,
                 Request(variant, "celebrateCorrectAnswer", gameContext, option, lenRand,
                         RoundScenario(variant,
                                       CorrectScenario(a.playerName, a.songTitle,
                                                       a.songArtist, a.playerScore),
                                       a.playerGuess, gameContext)),
                 rand)
    /\ UNCHANGED <<variant, initialized, currentPersonality, responseRate, gameContext,
                   roundLog, responseLog>>

HandleIncorrectAnswer(a, option, rand, lenRand) ==
    /\ EventCall("handleIncorrectAnswer", "",
                 [Pending("handleIncorrectAnswer") EXCEPT
                      !.songTitle = a.songTitle, !.songArtist = a.songArtist],
                 option,
                 Request(variant, "handleIncorrectAnswer", gameContext, option, lenRand,
                         RoundScenario(variant,
                                       IncorrectScenario(a.playerName, a.songTitle,
                                                         a.songArtist),
                                       a.playerGuess, gameContext)),
                 rand)
    /\ UNCHANGED <<variant, initialized, currentPersonality, responseRate, gameContext,
                   roundLog, responseLog>>

IntroduceQuestion(q, option, rand) ==
    /\ EventCall("introduceQuestion", "", Pending("introduceQuestion"), option,
                 Request(variant, "introduceQuestion", gameContext, option, 0,
                         QuestionScenario(q)),
                 rand)
    /\ UNCHANGED <<variant, initialized, currentPersonality, responseRate, gameContext,
                   roundLog, responseLog>>

\* option is a responseLength the caller passes in options, which handleGameEnd
\* does not read
HandleGameEnd(g, option, rand) ==
    /\ EventCall("handleGameEnd", "",
                 [Pending("handleGameEnd") EXCEPT
                      !.totalQuestions = g.totalQuestions, !.finalScore = g.finalScore],
                 option,
                 Request(variant, "handleGameEnd", gameContext, option, 0,
                         GameEndScenario(variant, g)),
                 rand)
    /\ UNCHANGED <<variant, initialized, currentPersonality, responseRate, gameContext,
                   roundLog, responseLog>>

\* the context variant starts a new game context once past the initialized check
\* mutant: the game is started before the initialized check
AnnounceGameIntro_AlwaysStarts(setup, option, rand) ==
    /\ EventCall("announceGameIntro", "",
                 [Pending("announceGameIntro") EXCEPT !.playlistName = setup.playlistName],
                 option,
                 Request(variant, "announceGameIntro", gameContext, option, 0,
                         IntroScenario(variant, setup)),
                 rand)
    /\ IF variant = "context"
       THEN /\ gameContext' = Some(FreshContext(setup))
            /\ roundLog' = <<>>
            /\ responseLog' = <<>>
       ELSE UNCHANGED <<gameContext, roundLog, responseLog>>
    /\ UNCHANGED <<variant, initialized, currentPersonality, responseRate>>

AnnounceGameIntro(setup, option, rand) ==
    /\ EventCall("announceGameIntro", "",
                 [Pending("announceGameIntro") EXCEPT !.playlistName = setup.playlistName],
                 option,
                 Request(variant, "announceGameIntro", gameContext, option, 0,
                         IntroScenario(variant, setup)),
                 rand)
    /\ IF variant = "context" /\ initialized
       THEN /\ gameContext' = Some(FreshContext(setup))
            /\ roundLog' = <<>>
            /\ responseLog' = <<>>
       ELSE UNCHANGED <<gameContext, roundLog, responseLog>>
    /\ UNCHANGED <<variant, initialized, currentPersonality, responseRate>>

\* mutant: the response is prepared before the round is recorded
HandleAnswer_DispatchFirst(playerName, rd, rand, lenRand) ==
    LET op == IF rd.isCorrect THEN "celebrateCorrectAnswer" ELSE "handleIncorrectAnswer"
        after == IF gameContext = Null
                 THEN Null
                 ELSE Some(RecordRound(gameContext[1], rd))
    IN  /\ variant = "context"
        /\ gameContext' = after
        /\ roundLog' = IF gameContext = Null
                       THEN roundLog
                       ELSE Append(roundLog, RoundData(after[1].currentRound, rd))
        /\ EventCall(op, "handleAnswer",
                     [Pending(op) EXCEPT
                          !.songTitle = rd.songTitle, !.songArtist = rd.songArtist],
                     "",
                     Request(variant, op, gameContext, "", lenRand,
                             RoundScenario(variant,
                                           IF rd.isCorrect
                                           THEN CorrectScenario(playerName, rd.songTitle,
                                                                rd.songArtist,
                                                                rd.playerScore)
                                           ELSE IncorrectScenario(playerName, rd.songTitle,
                                                                  rd.songArtist),
                                           rd.playerGuess, gameContext)),
                     rand)
        /\ UNCHANGED <<variant, initialized, currentPersonality, responseRate, responseLog>>

\* handleAnswer: addRoundResult, then celebrateCorrectAnswer or handleIncorrectAnswer
\* with the options left out
HandleAnswer(playerName, rd, rand, lenRand) ==
    LET op == IF rd.isCorrect THEN "celebrateCorrectAnswer" ELSE "handleIncorrectAnswer"
        after == IF gameContext = Null
                 THEN Null
                 ELSE Some(RecordRound(gameContext[1], rd))
    IN  /\ variant = "context"
        /\ gameContext' = after
        /\ roundLog' = IF gameContext = Null
                       THEN roundLog
                       ELSE Append(roundLog, RoundData(after[1].currentRound, rd))
        /\ EventCall(op, "handleAnswer",
                     [Pending(op) EXCEPT
                          !.songTitle = rd.songTitle, !.songArtist = rd.songArtist],
                     "",
                     Request(variant, op, after, "", lenRand,
                             RoundScenario(variant,
                                           IF rd.isCorrect
                                           THEN CorrectScenario(playerName, rd.songTitle,
                                                                rd.songArtist,
                                                                rd.playerScore)
                                           ELSE IncorrectScenario(playerName, rd.songTitle,
                                                                  rd.songArtist),
                                           rd.playerGuess, after)),
                     rand)
        /\ UNCHANGED <<variant, initialized, currentPersonality, responseRate, responseLog>>

\* inflight without its i-th entry
Without(s, i) == SubSeq(s, 1, i - 1) \o SubSeq(s, i + 1, Len(s))

\* the text of the catch block of the operation; the earliest variant has no
\* getFallbackGameEndResponse
CatchText(v, p, persona) ==
    CASE p.op = "celebrateCorrectAnswer" ->
            GetFallbackResponse(persona, "correct_answer", p.songTitle, p.songArtist)
      [] p.op = "handleIncorrectAnswer" ->
            GetFallbackResponse(persona, "wrong_answer", p.songTitle, p.songArtist)
      [] p.op = "introduceQuestion" ->
            GetFallbackResponse(persona, "question_start", "", "")
      [] p.op = "handleGameEnd" ->
            IF v = "earliest"
            THEN GetFallbackResponse(persona, "game_end", "", "")
            ELSE GetFallbackGameEndResponse(persona, p.finalScore \div 10,
                                            p.totalQuestions, p.finalScore)
      [] p.op = "announceGameIntro" ->
            GetFallbackGameIntro(persona, p.playlistName)

\* what generateResponse can do: throw, or return {text, success, error}, the texts
\* of successful results being drawn from texts
ServiceOutcomesOver(texts) ==
    { [kind |-> "throw", text |-> "", success |-> FALSE, error |-> "service unreachable"] }
    \cup { [kind |-> "return", text |-> t, success |-> TRUE, error |-> ""] : t \in texts }
    \cup { [kind |-> "return", text |-> t, success |-> FALSE, error |-> "generation failed"] :
              t \in {"", "Sorry"} }

ServiceOutcomes == ServiceOutcomesOver({"", NoResponseText, "Great!", "Wow!"})

HostServiceOutcomes == ServiceOutcomesOver({"", NoResponseText, "Great!"})

\* the HostResponse the operation returns after its await
ResultOf(v, p, outcome, persona) ==
    IF outcome.kind = "throw"
    THEN HostResponse(CatchText(v, p, persona), FALSE, outcome.error, FALSE)
    ELSE HostResponse(
             IF p.op = "announceGameIntro" /\ outcome.text = ""
             THEN GetFallbackGameIntro(persona, p.playlistName)
             ELSE outcome.text,
             outcome.success, outcome.error, FALSE)

\* mutant: the text of an unsuccessful result is recorded as well
TrackedText_IgnoresSuccess(v, p, outcome) ==
    IF TracksResponse(v, p.op) /\ outcome.kind = "return"
    THEN outcome.text
    ELSE ""

\* the text the operation hands to addAIResponse after its await ("": it hands none)
TrackedText(v, p, outcome) ==
    IF TracksResponse(v, p.op) /\ outcome.kind = "return" /\ outcome.success
    THEN outcome.text
    ELSE ""

\* the i-th suspended event operation resumes with the outcome of generateResponse
ResumeEvent(i, outcome) ==
    LET p == inflight[i]
        text == TrackedText(variant, p, outcome)
    IN  /\ p.op \in EventOps
        /\ inflight' = Without(inflight, i)
        /\ gameContext' = RecordResponse(gameContext, text)
        /\ responseLog' = LogResponse(gameContext, responseLog, text)
        /\ last' = [Obs(p.op) EXCEPT
                        !.step = "resume",
                        !.stale = p.stale,
                        !.service = Some(outcome),
                        !.result = Some(ResultOf(variant, p, outcome, currentPersonality))]
        /\ UNCHANGED <<variant, initialized, currentPersonality, responseRate, roundLog>>

\* mutant: the opt-out leaves the initialized flag as it was
Initialize_NoneKeepsFlag(personalityId) ==
    /\ IF personalityId = "none"
       THEN /\ UNCHANGED initialized
            /\ last' = [Obs("initialize") EXCEPT
                            !.arg = personalityId, !.returned = "false"]
            /\ UNCHANGED inflight
       ELSE /\ UNCHANGED initialized
            /\ last' = [Obs("initialize") EXCEPT
                            !.arg = personalityId, !.external = "initialize"]
            /\ inflight' = Append(inflight,
                                  [Pending("initialize") EXCEPT
                                       !.personalityId = personalityId])
    /\ UNCHANGED <<variant, currentPersonality, responseRate, gameContext, roundLog,
                   responseLog>>

\* initialize(personalityId), up to its await on aiHostService.initialize
Initialize(personalityId) ==
    /\ IF personalityId = "none"
       THEN /\ initialized' = FALSE
            /\ last' = [Obs("initialize") EXCEPT
                            !.arg = personalityId, !.returned = "false"]
            /\ UNCHANGED inflight
       ELSE /\ UNCHANGED initialized
            /\ last' = [Obs("initialize") EXCEPT
                            !.arg = personalityId, !.external = "initialize"]
            /\ inflight' = Append(inflight,
                                  [Pending("initialize") EXCEPT
                                       !.personalityId = personalityId])
    /\ UNCHANGED <<variant, currentPersonality, responseRate, gameContext, roundLog,
                   responseLog>>

\* what aiHostService.initialize can do
InitOutcomes == {"throw", "failure", "success"}

\* the outcome of aiHostService.initialize as the observation records it
InitServiceOutcome(outcome) ==
    [kind |-> (IF outcome = "throw" THEN "throw" ELSE "return"),
     text |-> "",
     success |-> (outcome = "success"),
     error |-> (IF outcome = "success" THEN "" ELSE "initialization failed")]

\* mutant: an unsuccessful result of aiHostService.initialize is taken for a success
ResumeInitialize_IgnoresFailure(i, outcome) ==
    LET p == inflight[i]
    IN  /\ p.op = "initialize"
        /\ inflight' = Without(inflight, i)
        /\ IF outcome # "throw"
           THEN /\ currentPersonality' = p.personalityId
                /\ initialized' = TRUE
           ELSE /\ initialized' = FALSE
                /\ UNCHANGED currentPersonality
        /\ last' = [Obs("initialize") EXCEPT
                        !.step = "resume",
                        !.arg = p.personalityId,
                        !.service = Some(InitServiceOutcome(outcome)),
                        !.returned = (IF outcome # "throw" THEN "true" ELSE "false")]
        /\ UNCHANGED <<variant, responseRate, gameContext, roundLog, responseLog>>

\* the i-th suspended initialize resumes with the outcome of aiHostService.initialize
ResumeInitialize(i, outcome) ==
    LET p == inflight[i]
    IN  /\ p.op = "initialize"
        /\ inflight' = Without(inflight, i)
        /\ IF outcome = "success"
           THEN /\ currentPersonality' = p.personalityId
                /\ initialized' = TRUE
           ELSE /\ initialized' = FALSE
                /\ UNCHANGED currentPersonality
        /\ last' = [Obs("initialize") EXCEPT
                        !.step = "resume",
                        !.arg = p.personalityId,
                        !.service = Some(InitServiceOutcome(outcome)),
                        !.returned = (IF outcome = "success" THEN "true" ELSE "false")]
        /\ UNCHANGED <<variant, responseRate, gameContext, roundLog, responseLog>>

\* what aiHostService.getStatus() can report: aiProviderReady, ttsProviderReady
HostStatuses == {<<TRUE, TRUE>>, <<FALSE, FALSE>>}

\* getStatus() while the service reports hostStatus
GetStatus(hostStatus) ==
    /\ last' = [Obs("getStatus") EXCEPT
                    !.external = "getStatus",
                    !.parts = <<ToString(initialized), currentPersonality,
                                ToString(hostStatus[1]), ToString(hostStatus[2]),
                                ToString(responseRate)>>]
    /\ UNCHANGED <<variant, initialized, currentPersonality, responseRate, gameContext,
                   inflight, roundLog, responseLog>>

-----------------------------------------------------------------------------
(* Specifications *)

\* the state after the module is loaded: new GameHostManager()
InitOf(v) ==
    /\ variant = v
    /\ initialized = FALSE
    /\ currentPersonality = "riley"
    /\ responseRate = (CASE v = "context" -> DefaultRateContext
                          [] v = "limiter" -> DefaultRateLimiter
                          [] v = "earliest" -> NoLimiterRate)
    /\ gameContext = Null
    /\ inflight = <<>>
    /\ last = Obs("constructor")
    /\ roundLog = <<>>
    /\ responseLog = <<>>

\* The context tracker driven directly: startNewGame and addRoundResult
InitTracker == InitOf("context")

NextTracker ==
    \/ \E setup \in GameSetups : StartNewGame(setup)
    \/ \E rd \in RoundInputs : Len(roundLog) < MaxRounds /\ AddRoundResult(rd)

SpecTracker == InitTracker /\ [][NextTracker]_vars

\* The response rate limiter of either variant: setResponseRate, testResponseLimiter,
\* and introduceQuestion as the event operation running the trial
InitLimiter == \E v \in Variants : InitOf(v)

\* the draws of one testResponseLimiter call
DrawRuns == UNION { [1..n -> Draws] : n \in 1..MaxIterations }

Idle == inflight = <<>>

NextLimiter ==
    \/ \E rate \in RateInputs : SetResponseRate(rate)
    \/ \E draws \in DrawRuns : TestResponseLimiter(draws)
    \/ Idle /\ Initialize("riley")
    \/ \E i \in 1..Len(inflight) : ResumeInitialize(i, "success")
    \/ \E q \in QuestionInputs, rand \in Draws : Idle /\ IntroduceQuestion(q, "", rand)
    \/ \E i \in 1..Len(inflight) :
          ResumeEvent(i, [kind |-> "return", text |-> "Great!", success |-> TRUE,
                          error |-> ""])

SpecLimiter == InitLimiter /\ [][NextLimiter]_vars

\* The response history of the context variant: addAIResponse and the event
\* operations, awaited one at a time, with the responses of a game bounded
InitResponses == InitOf("context")

NextResponses ==
    \/ Idle /\ Initialize("jordan")
    \/ \E i \in 1..Len(inflight), outcome \in {"failure", "success"} :
          ResumeInitialize(i, outcome)
    \/ \E setup \in HostSetups : StartNewGame(setup)
    \/ \E text \in ResponseInputs : AddAIResponse(text) /\ Len(responseLog') <= MaxResponses
    \/ \E a \in AnswerInputs, rand \in {0, 99} :
          Idle /\ CelebrateCorrectAnswer(a, "", rand, 0)
    \/ \E a \in AnswerInputs, rand \in {0, 99} :
          Idle /\ HandleIncorrectAnswer(a, "", rand, 0)
    \/ \E q \in QuestionInputs, rand \in {0, 99} : Idle /\ IntroduceQuestion(q, "", rand)
    \/ \E g \in GameEndInputs : Idle /\ HandleGameEnd(g, "", 0)
    \/ \E setup \in HostSetups : Idle /\ AnnounceGameIntro(setup, "", 0)
    \/ \E i \in 1..Len(inflight), outcome \in ServiceOutcomes :
          ResumeEvent(i, outcome) /\ Len(responseLog') <= MaxResponses

SpecResponses == InitResponses /\ [][NextResponses]_vars

\* The scenario builder of the context variant applied to the contexts the tracker
\* reaches, and to no context
InitScenario == InitOf("context")

\* the base scenarios and guesses buildRichScenario is applied to
ScenarioInputs ==
    { <<CorrectScenario("Ava", "Take On Me", "a-ha", 30), "take on me">>,
      <<IncorrectScenario("Ava", "Africa", "Toto"), "">>,
      <<IncorrectScenario("Ava", "Africa", "Toto"), " ">> }

NextScenario ==
    \/ \E setup \in HostSetups : StartNewGame(setup)
    \/ \E rd \in RoundInputs : Len(roundLog) < ScenarioMaxRounds /\ AddRoundResult(rd)
    \/ \E text \in HostResponseInputs :
          AddAIResponse(text) /\ Len(responseLog') <= ScenarioMaxResponses
    \/ \E in \in ScenarioInputs : ApplyBuildRichScenario(in[1], in[2])

SpecScenario == InitScenario /\ [][NextScenario]_vars

\* The response length of the requests of the three variants: the event operations
\* with every responseLength option and draws around the thresholds
InitLength == \E v \in AllVariants : InitOf(v)

NextLength ==
    \/ Idle /\ Initialize("riley")
    \/ \E i \in 1..Len(inflight) : ResumeInitialize(i, "success")
    \/ \E a \in AnswerInputs, option \in LengthOptions, lenRand \in LengthDraws :
          Idle /\ CelebrateCorrectAnswer(a, option, 0, lenRand)
    \/ \E a \in AnswerInputs, option \in LengthOptions, lenRand \in LengthDraws :
          Idle /\ HandleIncorrectAnswer(a, option, 0, lenRand)
    \/ \E q \in QuestionInputs, option \in LengthOptions :
          Idle /\ IntroduceQuestion(q, option, 0)
    \/ \E g \in GameEndInputs, option \in LengthOptions :
          Idle /\ HandleGameEnd(g, option, 0)
    \/ \E setup \in HostSetups, option \in LengthOptions :
          Idle /\ AnnounceGameIntro(setup, option, 0)
    \/ \E i \in 1..Len(inflight) :
          ResumeEvent(i, [kind |-> "throw", text |-> "", success |-> FALSE,
                          error |-> "service unreachable"])

SpecLength == InitLength /\ [][NextLength]_vars

\* persona ids: the four of the tables, one no object has, and the inherited names
FallbackPersonas == KnownPersonas \cup {"zelda"} \cup InheritedKeys

\* the phases of the fallback tables, and one they have no entry for
TablePhases == {"question_start", "correct_answer", "wrong_answer", "round_end", "game_end"}

GamePhases == TablePhases \cup {"game_intro"}

\* songTitle and songArtist of a fallback, "" for a missing one
SongInputs == {<<"Song A", "Artist A">>, <<"Song A", "">>, <<"", "">>}

\* The lookups of the fallback bank and of the character table, for every
\* persona id initialize can have accepted
InitFallback == \E v \in AllVariants : InitOf(v)

NextFallback ==
    \/ \E personalityId \in FallbackPersonas : Idle /\ Initialize(personalityId)
    \/ \E i \in 1..Len(inflight) : ResumeInitialize(i, "success")
    \/ \E gamePhase \in GamePhases, song \in SongInputs :
          Idle /\ ApplyGetFallbackResponse(gamePhase, song)
    \/ \E characterId \in FallbackPersonas : Idle /\ ApplyGetCharacterInfo(characterId)

SpecFallback == InitFallback /\ [][NextFallback]_vars

\* what generateResponse does in the specification of overlapping calls
ConcurrentOutcomes ==
    { [kind |-> "return", text |-> "Great!", success |-> TRUE, error |-> ""],
      [kind |-> "throw", text |-> "", success |-> FALSE, error |-> "service unreachable"] }

\* The context variant with overlapping calls: a caller that does not await an
\* event operation before the next call, and calls that resume in any order
InitConcurrent == InitOf("context")

NextConcurrent ==
    \/ Idle /\ ~initialized /\ Initialize("riley")
    \/ \E i \in 1..Len(inflight) : ResumeInitialize(i, "success")
    \/ \E setup \in HostSetups :
          Len(inflight) < MaxInFlight /\ AnnounceGameIntro(setup, "", 0)
    \/ \E rd \in HostRoundInputs :
          /\ Len(inflight) < MaxInFlight
          /\ Len(roundLog) < ConcurrentMaxRounds
          /\ \E rand \in {0, 99} : HandleAnswer("Ava", rd, rand, 59)
    \/ \E i \in 1..Len(inflight), outcome \in ConcurrentOutcomes :
          ResumeEvent(i, outcome) /\ Len(responseLog') <= ConcurrentMaxResponses

SpecConcurrent == InitConcurrent /\ [][NextConcurrent]_vars

\* rounds worth 10, 15, 5 and 0 points, with the player's score after them
GameEndRoundInputs ==
    { [songTitle |-> "Take On Me", songArtist |-> "a-ha", playerGuess |-> "take on me",
       isCorrect |-> TRUE, pointsEarned |-> 10, playerScore |-> 10, opponentScore |-> 0],
      [songTitle |-> "Africa", songArtist |-> "Toto", playerGuess |-> "africa",
       isCorrect |-> TRUE, pointsEarned |-> 15, playerScore |-> 15, opponentScore |-> 0],
      [songTitle |-> "Africa", songArtist |-> "Toto", playerGuess |-> "africa",
       isCorrect |-> TRUE, pointsEarned |-> 5, playerScore |-> 20, opponentScore |-> 0],
      [songTitle |-> "Africa", songArtist |-> "Toto", playerGuess |-> "",
       isCorrect |-> FALSE, pointsEarned |-> 0, playerScore |-> 10, opponentScore |-> 0] }

\* the final scores handleGameEnd is called with
FinalScores == {-5, 0, 5, 10, 20, 35}

FinalScoreInputs ==
    { [finalScore |-> s, totalQuestions |-> 5, playlistName |-> "80s Hits",
       playerName |-> "Ava"] : s \in FinalScores }

\* The end of a game in the two variants that count correct answers: rounds of
\* several values, then handleGameEnd with a final score
InitGameEnd == \E v \in Variants : InitOf(v)

NextGameEnd ==
    \/ Idle /\ ~initialized /\ Initialize("jordan")
    \/ \E i \in 1..Len(inflight) : ResumeInitialize(i, "success")
    \/ \E setup \in HostSetups : Idle /\ StartNewGame(setup)
    \/ \E rd \in GameEndRoundInputs :
          Idle /\ Len(roundLog) < GameEndMaxRounds /\ AddRoundResult(rd)
    \/ \E g \in FinalScoreInputs : Idle /\ HandleGameEnd(g, "", 0)
    \/ \E i \in 1..Len(inflight), outcome \in ConcurrentOutcomes : ResumeEvent(i, outcome)

SpecGameEnd == InitGameEnd /\ [][NextGameEnd]_vars

\* The whole class, either variant, driven by the sequential game loop: the caller
\* awaits each call before it makes the next, so a call starts with none suspended
Init == \E v \in Variants : InitOf(v)

\* the draws of the testResponseLimiter calls in the full specification
HostDrawRuns == { <<60>>, <<0, 99>> }

Next ==
    \/ \E rate \in HostRateInputs : SetResponseRate(rate)
    \/ \E draws \in HostDrawRuns : TestResponseLimiter(draws)
    \/ \E id \in PersonaInputs : Idle /\ Initialize(id)
    \/ \E i \in 1..Len(inflight), outcome \in InitOutcomes : ResumeInitialize(i, outcome)
    \/ \E setup \in HostSetups : StartNewGame(setup)
    \/ \E rd \in HostRoundInputs : Len(roundLog) < HostMaxRounds /\ AddRoundResult(rd)
    \/ \E text \in HostResponseInputs :
          AddAIResponse(text) /\ Len(responseLog') <= HostMaxResponses
    \/ \E a \in AnswerInputs, len \in LengthChoices, rand \in TrialDraws :
          Idle /\ CelebrateCorrectAnswer(a, len[1], rand, len[2])
    \/ \E a \in AnswerInputs, len \in LengthChoices, rand \in TrialDraws :
          Idle /\ HandleIncorrectAnswer(a, len[1], rand, len[2])
    \/ \E q \in QuestionInputs, len \in LengthChoices, rand \in TrialDraws :
          Idle /\ IntroduceQuestion(q, len[1], rand)
    \/ \E g \in GameEndInputs, rand \in TrialDraws : Idle /\ HandleGameEnd(g, "", rand)
    \/ \E setup \in HostSetups, len \in LengthChoices, rand \in TrialDraws :
          Idle /\ AnnounceGameIntro(setup, len[1], rand)
    \/ \E rd \in HostRoundInputs, rand \in TrialDraws, lenRand \in {59, 60} :
          Idle /\ Len(roundLog) < HostMaxRounds /\ HandleAnswer("Ava", rd, rand, lenRand)
    \/ \E i \in 1..Len(inflight), outcome \in HostServiceOutcomes :
          ResumeEvent(i, outcome) /\ Len(responseLog') <= HostMaxResponses
    \/ \E hostStatus \in HostStatuses : GetStatus(hostStatus)
    \/ GetGameContext
    \/ GetContextSummary

Spec == Init /\ [][Next]_vars

-----------------------------------------------------------------------------
(* Properties *)

HasContext == gameContext # Null

\* the last Min(n, Len(s)) entries of s, in order
LastN(s, n) == SubSeq(s, Len(s) - Min(n, Len(s)) + 1, Len(s))

\* C1: in every state reached by startNewGame and addRoundResult calls, the active
\* context has longestStreak >= currentStreak.
C1_LongestAtLeastCurrent ==
    HasContext => gameContext[1].longestStreak >= gameContext[1].currentStreak

\* a streak of two was broken and a new streak has begun
C1_Witness ==
    /\ HasContext
    /\ gameContext[1].longestStreak = 2
    /\ gameContext[1].currentStreak = 1
    /\ gameContext[1].incorrectCount = 1

\* C2: every round recorded on an active context sets currentStreak to 0 when the
\* round is incorrect and to its previous value plus 1 when it is correct.
C2_StreakStep ==
    [][(HasContext /\ Len(roundLog') = Len(roundLog) + 1) =>
         IF roundLog'[Len(roundLog')].isCorrect
         THEN gameContext'[1].currentStreak = gameContext[1].currentStreak + 1
         ELSE gameContext'[1].currentStreak = 0]_vars

\* an incorrect round has just ended a streak of two
C2_Witness ==
    /\ HasContext
    /\ Len(roundLog) = 3
    /\ roundLog[1].isCorrect /\ roundLog[2].isCorrect /\ ~roundLog[3].isCorrect
    /\ gameContext[1].currentStreak = 0

\* C3: recentRounds never holds more than 5 entries and is exactly the last
\* min(n, 5) of the n rounds recorded in the game, in recording order.
C3_RecentRoundsFifo ==
    HasContext =>
        /\ Len(gameContext[1].recentRounds) <= 5
        /\ gameContext[1].recentRounds = LastN(roundLog, 5)

\* seven rounds were recorded, two were evicted
C3_Witness ==
    /\ HasContext
    /\ Len(roundLog) = 7
    /\ Len(gameContext[1].recentRounds) = 5
    /\ gameContext[1].recentRounds[1].roundNumber = 3

\* C4: recentAIResponses never holds more than 5 entries and is exactly the last
\* min(k, 5) of the k response texts accepted in the current game, in the order
\* they were accepted, whether addAIResponse or an event operation recorded them.
C4_RecentResponsesFifo ==
    HasContext =>
        /\ Len(gameContext[1].recentAIResponses) <= 5
        /\ gameContext[1].recentAIResponses = LastN(responseLog, 5)

\* seven responses were accepted, the last one recorded by an event operation
C4_Witness ==
    /\ HasContext
    /\ Len(responseLog) = 7
    /\ last.step = "resume"
    /\ Len(gameContext[1].recentAIResponses) = 5
    /\ gameContext[1].recentAIResponses[1] = "Great!"
    /\ gameContext[1].recentAIResponses[5] = "Wow!"
    /\ responseLog[1] = "Wow!"

\* the step just taken replaced the context: startNewGame, or the call of an
\* initialized announceGameIntro
NewGameStep ==
    \/ last'.op = "startNewGame"
    \/ last'.op = "announceGameIntro" /\ last'.step = "call" /\ initialized

\* the step just taken recorded a round: addRoundResult, directly or in handleAnswer
RoundStep == last'.op = "addRoundResult" \/ last'.caller = "handleAnswer"

\* C5: within one game currentRound never decreases: a step that records a round
\* on an active context raises it by exactly 1, and every other step that does not
\* start a new game leaves it as it is.
C5_CurrentRoundSteps ==
    [][(HasContext /\ ~NewGameStep) =>
         /\ gameContext' # Null
         /\ gameContext'[1].currentRound =
                gameContext[1].currentRound + (IF RoundStep THEN 1 ELSE 0)]_vars

\* a second round was recorded in a game
C5_Witness ==
    /\ HasContext
    /\ gameContext[1].currentRound = 2
    /\ last.op = "addRoundResult"

\* C6: setResponseRate(x) stores min(1, max(0, x)), so the rate lies in [0,1] in
\* every reachable state (in hundredths: min(100, max(0, x)) and 0..100).
C6_RateClamped ==
    /\ responseRate \in 0..100
    /\ last.op = "setResponseRate" =>
          responseRate = (IF last.rateArg < 0 THEN 0
                          ELSE IF last.rateArg > 100 THEN 100
                          ELSE last.rateArg)

\* setResponseRate(-1) has stored 0
C6_Witness ==
    /\ last.op = "setResponseRate"
    /\ last.rateArg = -100
    /\ responseRate = 0

\* C7: with the rate at 1 every limiter trial succeeds and with the rate at 0 every
\* trial fails, whatever the draws: in testResponseLimiter and in an event operation.
C7_TrialAtExtremes ==
    /\ (last.op = "testResponseLimiter" /\ responseRate = 100) =>
          last.responseCount = last.iterations
    /\ (last.op = "testResponseLimiter" /\ responseRate = 0) =>
          last.responseCount = 0
    /\ last.trial = "fail" => responseRate # 100
    /\ last.trial = "pass" => responseRate # 0

\* two trials were run at rate 0 and both failed
C7_Witness ==
    /\ last.op = "testResponseLimiter"
    /\ responseRate = 0
    /\ last.iterations = 2
    /\ last.responseCount = 0

\* C8: on an initialized orchestrator the call of handleGameEnd runs no limiter
\* trial, calls generateResponse and does not return the skip result.
C8_GameEndAlwaysGenerates ==
    (last.op = "handleGameEnd" /\ last.step = "call" /\ initialized) =>
        /\ last.trial = "none"
        /\ last.external = "generateResponse"
        /\ last.result # Null => last.result[1] # SkipResult

\* C9: on an initialized orchestrator the call of announceGameIntro runs no limiter
\* trial, calls generateResponse and does not return the skip result.
C9_GameIntroAlwaysGenerates ==
    (last.op = "announceGameIntro" /\ last.step = "call" /\ initialized) =>
        /\ last.trial = "none"
        /\ last.external = "generateResponse"
        /\ last.result # Null => last.result[1] # SkipResult

\* C10: while the orchestrator is uninitialized the call of every event operation
\* returns success=false with its static text and the not-initialized error, runs
\* no limiter trial and calls no external service.
C10_UninitializedFallback ==
    (last.op \in EventOps /\ last.step = "call" /\ ~initialized) =>
        /\ last.external = "none"
        /\ last.trial = "none"
        /\ last.request = Null
        /\ last.result # Null
        /\ last.result[1].success = FALSE
        /\ last.result[1].error = "Host not initialized"
        /\ last.result[1].noResponse = FALSE
        /\ last.result[1].text =
              (CASE last.op = "celebrateCorrectAnswer" -> "Nice job!"
                 [] last.op = "handleIncorrectAnswer" -> "Nice try!"
                 [] last.op = "introduceQuestion" -> "Here's your next song!"
                 [] last.op = "handleGameEnd" -> "Thanks for playing!"
                 [] last.op = "announceGameIntro" -> "Welcome to Song Quiz!")

\* an uninitialized introduceQuestion returned its static text with the rate at 0
C10_Witness ==
    /\ ~initialized
    /\ responseRate = 0
    /\ last.op = "introduceQuestion"
    /\ last.result # Null
    /\ last.result[1].text = "Here's your next song!"

\* the operations that run the limiter trial in both variants
LimitedOps == {"celebrateCorrectAnswer", "handleIncorrectAnswer", "introduceQuestion"}

\* C11: on an initialized orchestrator the call of celebrateCorrectAnswer,
\* handleIncorrectAnswer or introduceQuestion whose limiter trial fails returns
\* exactly {text: '[no response]', success: true, noResponse: true}, calls no
\* external service and leaves the game context as it was (as addRoundResult left
\* it, when handleAnswer dispatched the call); with the rate at 0 every such call
\* ends this way.
C11_SkipOnFailedTrial ==
    [][(/\ last'.op \in LimitedOps
        /\ last'.step = "call"
        /\ initialized
        /\ (last'.trial = "fail" \/ responseRate = 0)) =>
          /\ last'.result = Some([text |-> "[no response]", success |-> TRUE,
                                  error |-> "", noResponse |-> TRUE])
          /\ last'.external = "none"
          /\ last'.request = Null
          /\ inflight' = inflight
          /\ IF last'.caller = "handleAnswer" /\ gameContext # Null
             THEN \E rd \in HostRoundInputs :
                      gameContext' = Some(RecordRound(gameContext[1], rd))
             ELSE gameContext' = gameContext]_vars

\* handleIncorrectAnswer was skipped at rate 0 during a game
C11_Witness ==
    /\ initialized
    /\ responseRate = 0
    /\ HasContext
    /\ inflight = <<>>
    /\ last.op = "handleIncorrectAnswer"
    /\ last.caller = ""
    /\ last.trial = "fail"
    /\ last.result # Null
    /\ last.result[1].text = "[no response]"
    /\ last.result[1].noResponse

\* whether the awaited generateResponse failed: it threw or returned success=false
GenerationFailed(service) == service[1].kind = "throw" \/ ~service[1].success

\* C12: every event operation whose generateResponse call throws or returns a
\* result with success=false returns the fallback text of the current persona for
\* that operation, with success=false and the error message.
C12_FailureGivesFallback ==
    [][(/\ last'.op \in EventOps
        /\ last'.step = "resume"
        /\ GenerationFailed(last'.service)) =>
          \E i \in 1..Len(inflight) :
              /\ inflight[i].op = last'.op
              /\ inflight' = Without(inflight, i)
              /\ last'.result[1].text = CatchText(variant, inflight[i], currentPersonality)
              /\ last'.result[1].success = FALSE
              /\ last'.result[1].error = last'.service[1].error]_vars

\* C13: when an event operation returns after generateResponse succeeded with a
\* non-empty text and a game context is active, that text is the newest entry of
\* recentAIResponses.
C13_SuccessRecorded ==
    (/\ last.op \in EventOps
     /\ last.step = "resume"
     /\ HasContext
     /\ last.service[1].kind = "return"
     /\ last.service[1].success
     /\ last.service[1].text # "") =>
        /\ gameContext[1].recentAIResponses # <<>>
        /\ gameContext[1].recentAIResponses[Len(gameContext[1].recentAIResponses)] =
              last.service[1].text

\* C14: whatever path an event operation takes, the result it returns has a
\* non-empty text.
C14_TextNeverEmpty ==
    (last.op \in EventOps /\ last.result # Null) => last.result[1].text # ""

\* C15: initialize('none') calls no external service, returns false and leaves the
\* orchestrator uninitialized; any other id calls aiHostService.initialize, and the
\* call returns true, with the orchestrator initialized and the id as current
\* persona, exactly when the service returned success; otherwise it returns false
\* and the orchestrator is not initialized.
C15_InitializeOutcome ==
    last.op = "initialize" =>
        /\ (last.step = "call" /\ last.arg = "none") =>
              /\ last.external = "none"
              /\ last.returned = "false"
              /\ ~initialized
        /\ (last.step = "call" /\ last.arg # "none") =>
              /\ last.external = "initialize"
              /\ last.returned = "none"
        /\ last.step = "resume" =>
              /\ last.arg # "none"
              /\ IF last.service[1].kind = "return" /\ last.service[1].success
                 THEN /\ last.returned = "true"
                      /\ initialized
                      /\ currentPersonality = last.arg
                 ELSE /\ last.returned = "false"
                      /\ ~initialized

\* initialize('jordan') returned true
C15_Witness ==
    /\ last.op = "initialize"
    /\ last.step = "resume"
    /\ last.arg = "jordan"
    /\ last.returned = "true"
    /\ initialized
    /\ currentPersonality = "jordan"

\* C16: right after startNewGame the context is a fresh one: currentRound, the
\* counters, the streaks and the scores are 0 and both histories are empty.
C16_FreshContext ==
    last.op = "startNewGame" =>
        /\ HasContext
        /\ gameContext[1].currentRound = 0
        /\ gameContext[1].correctCount = 0
        /\ gameContext[1].incorrectCount = 0
        /\ gameContext[1].currentStreak = 0
        /\ gameContext[1].longestStreak = 0
        /\ gameContext[1].playerScore = 0
        /\ gameContext[1].opponentScore = 0
        /\ gameContext[1].recentRounds = <<>>
        /\ gameContext[1].recentAIResponses = <<>>

\* a game was started
C16_Witness ==
    /\ last.op = "startNewGame"
    /\ HasContext
    /\ gameContext[1].playlistName = "80s Hits"
    /\ gameContext[1].currentRound = 0
    /\ gameContext[1].recentAIResponses = <<>>

\* C17: addRoundResult called while there is no game context, directly or by
\* handleAnswer, leaves the context null and creates no history.
C17_NoContextNoRound ==
    [][(RoundStep /\ gameContext = Null) =>
          /\ gameContext' = Null
          /\ roundLog' = roundLog
          /\ responseLog' = responseLog]_vars

\* addRoundResult was called before any game was started
C17_Witness ==
    /\ last.op = "addRoundResult"
    /\ gameContext = Null
    /\ roundLog = <<>>

\* C18: addAIResponse(text) leaves the context as it is when there is no context,
\* when text is empty or when text is '[no response]', and otherwise appends text to
\* recentAIResponses (evicting beyond 5); recentAIResponses never holds the empty
\* string or '[no response]'.
C18_AddAIResponseFilter ==
    [][/\ gameContext' # Null =>
             \A i \in 1..Len(gameContext'[1].recentAIResponses) :
                 gameContext'[1].recentAIResponses[i] \notin {"", "[no response]"}
       /\ last'.op = "addAIResponse" =>
             IF gameContext = Null \/ last'.arg = "" \/ last'.arg = "[no response]"
             THEN gameContext' = gameContext
             ELSE gameContext' =
                      Some([gameContext[1] EXCEPT
                                !.recentAIResponses = LastN(Append(@, last'.arg), 5)])]_vars

\* addAIResponse('[no response]') was called on a context holding one response
C18_Witness ==
    /\ HasContext
    /\ last.op = "addAIResponse"
    /\ last.arg = "[no response]"
    /\ gameContext[1].recentAIResponses = <<"Great!">>

\* C19: right after addRoundResult on an active context the context's playerScore
\* and opponentScore are the values passed to the call, whatever pointsEarned and
\* the scores before.
C19_ScoresOverwritten ==
    (HasContext /\ last.op = "addRoundResult") =>
        /\ roundLog # <<>>
        /\ gameContext[1].playerScore = roundLog[Len(roundLog)].playerScore
        /\ gameContext[1].opponentScore = roundLog[Len(roundLog)].opponentScore

\* after a round at scores 30 to 10, a round earning 10 points was recorded with
\* player score 10 and the opponent score left out
C19_Witness ==
    /\ HasContext
    /\ last.op = "addRoundResult"
    /\ Len(roundLog) = 2
    /\ roundLog[1].playerScore = 30
    /\ roundLog[2].pointsEarned = 10
    /\ gameContext[1].playerScore = 10
    /\ gameContext[1].opponentScore = 0

\* C20: buildRichScenario called while there is no game context returns the base
\* scenario text exactly, with nothing appended.
C20_NoContextScenario ==
    (last.op = "buildRichScenario" /\ gameContext = Null) => last.returned = last.arg

\* with no game started the base scenario of an incorrect answer came back as it was
C20_Witness ==
    /\ gameContext = Null
    /\ last.op = "buildRichScenario"
    /\ last.arg = "Ava guessed incorrectly. The correct answer was \"Africa\" by Toto."
    /\ last.returned = "Ava guessed incorrectly. The correct answer was \"Africa\" by Toto."

\* the score-relation phrases a scenario can hold for the player, for differences
\* up to the largest score of the inputs
RelationPhrases(playerName) ==
    { " (tied game)\n" }
    \cup { " (" \o playerName \o " leading by " \o ToString(d) \o ")\n" : d \in 1..30 }
    \cup { " (" \o playerName \o " trailing by " \o ToString(d) \o ")\n" : d \in 1..30 }

\* the positions of the appended strings that are members of the set
PartsIn(phrases) == { i \in 1..Len(last.parts) : last.parts[i] \in phrases }

\* C21: the scenario buildRichScenario returns on an active context is the base
\* scenario followed by the appended strings, of which exactly one is a
\* score-relation phrase: 'leading by playerScore - opponentScore' when the
\* difference is positive, 'trailing by opponentScore - playerScore' when it is
\* negative, 'tied game' when the scores are equal.
C21_ScoreRelationPhrase ==
    (last.op = "buildRichScenario" /\ HasContext) =>
        LET ctx == gameContext[1]
            expected ==
                IF ctx.playerScore > ctx.opponentScore
                THEN " (" \o ctx.playerName \o " leading by "
                     \o ToString(ctx.playerScore - ctx.opponentScore) \o ")\n"
                ELSE IF ctx.playerScore < ctx.opponentScore
                     THEN " (" \o ctx.playerName \o " trailing by "
                          \o ToString(ctx.opponentScore - ctx.playerScore) \o ")\n"
                     ELSE " (tied game)\n"
        IN  /\ last.returned = last.arg \o Concat(last.parts)
            /\ Cardinality(PartsIn(RelationPhrases(ctx.playerName))) = 1
            /\ PartsIn({expected}) # {}

\* at 30 to 10 the scenario says 'leading by 20'
C21_Witness ==
    /\ last.op = "buildRichScenario"
    /\ HasContext
    /\ gameContext[1].playerScore = 30
    /\ gameContext[1].opponentScore = 10
    /\ PartsIn({" (Ava leading by 20)\n"}) # {}

\* the current-streak callouts a scenario can hold
CurrentStreakCallouts ==
    { "- Current Streak: " \o ToString(n) \o " correct in a row!\n" : n \in 0..10 }

\* the best-streak callouts a scenario can hold
BestStreakCallouts ==
    { "- Best Streak: " \o ToString(n) \o " correct answers\n" : n \in 0..10 }

\* every round of the game so far was correct
AllCorrect == \A i \in 1..Len(roundLog) : roundLog[i].isCorrect

\* C22: the scenario of an active context holds the current-streak callout, with
\* the streak in it, exactly when currentStreak > 1, and the best-streak callout
\* exactly when longestStreak > 2; in a game of correct rounds only, the scenario
\* holds no callout after the first round, the current-streak callout alone after
\* the second, and both after the third.
C22_StreakCallouts ==
    (last.op = "buildRichScenario" /\ HasContext) =>
        LET ctx == gameContext[1]
            current == PartsIn(CurrentStreakCallouts)
            best == PartsIn(BestStreakCallouts)
        IN  /\ Cardinality(current) = (IF ctx.currentStreak > 1 THEN 1 ELSE 0)
            /\ Cardinality(best) = (IF ctx.longestStreak > 2 THEN 1 ELSE 0)
            /\ \A i \in current :
                  last.parts[i] = "- Current Streak: " \o ToString(ctx.currentStreak)
                                  \o " correct in a row!\n"
            /\ \A i \in best :
                  last.parts[i] = "- Best Streak: " \o ToString(ctx.longestStreak)
                                  \o " correct answers\n"
            /\ (AllCorrect /\ Len(roundLog) = 1) => (current = {} /\ best = {})
            /\ (AllCorrect /\ Len(roundLog) = 2) => (current # {} /\ best = {})
            /\ (AllCorrect /\ Len(roundLog) = 3) => (current # {} /\ best # {})

\* after three correct rounds and an incorrect one the scenario holds the
\* best-streak callout alone
C22_Witness ==
    /\ last.op = "buildRichScenario"
    /\ HasContext
    /\ Len(roundLog) = 4
    /\ gameContext[1].currentStreak = 0
    /\ gameContext[1].longestStreak = 3
    /\ PartsIn(CurrentStreakCallouts) = {}
    /\ PartsIn({"- Best Streak: 3 correct answers\n"}) # {}

\* C23: a handleAnswer call on an active context records the round, whether the
\* orchestrator is initialized or not and whether the limiter skips the response or
\* not, and runs celebrateCorrectAnswer when the round is correct and
\* handleIncorrectAnswer otherwise; the scenario and the streak count of a request
\* it sends are those of the context with the round recorded.
C23_RecordThenDispatch ==
    [][(last'.caller = "handleAnswer" /\ HasContext) =>
          /\ gameContext' # Null
          /\ Len(roundLog') = Len(roundLog) + 1
          /\ LET round == roundLog'[Len(roundLog')]
                 after == gameContext'[1]
             IN  /\ after.currentRound = gameContext[1].currentRound + 1
                 /\ round.roundNumber = after.currentRound
                 /\ after.recentRounds[Len(after.recentRounds)] = round
                 /\ last'.op = (IF round.isCorrect
                                THEN "celebrateCorrectAnswer"
                                ELSE "handleIncorrectAnswer")
                 /\ last'.request # Null =>
                       /\ last'.request[1].scenario =
                             BuildRichScenario(
                                 IF round.isCorrect
                                 THEN CorrectScenario("Ava", round.songTitle,
                                                      round.songArtist, round.playerScore)
                                 ELSE IncorrectScenario("Ava", round.songTitle,
                                                        round.songArtist),
                                 round.playerGuess, gameContext')
                       /\ round.isCorrect =>
                             last'.request[1].streakCount = after.currentStreak]_vars

\* handleAnswer recorded a second correct round and sent a request with streak 2
C23_Witness ==
    /\ last.caller = "handleAnswer"
    /\ last.op = "celebrateCorrectAnswer"
    /\ HasContext
    /\ gameContext[1].currentRound = 2
    /\ last.request # Null
    /\ last.request[1].streakCount = 2

\* C24: the request of handleGameEnd has responseLength 'long' whatever length
\* the caller passes in its options, and the request of introduceQuestion has
\* 'short' when the caller passes none and the caller's length otherwise.
C24_FixedLengths ==
    /\ (last.op = "handleGameEnd" /\ last.request # Null) =>
          last.request[1].responseLength = "long"
    /\ (last.op = "introduceQuestion" /\ last.request # Null) =>
          last.request[1].responseLength = (IF last.arg = "" THEN "short" ELSE last.arg)

\* handleGameEnd was called with responseLength 'short' and asked for 'long'
C24_Witness ==
    /\ last.op = "handleGameEnd"
    /\ last.arg = "short"
    /\ last.request # Null
    /\ last.request[1].responseLength = "long"

\* C25: when the caller passes no responseLength, the request of
\* celebrateCorrectAnswer, handleIncorrectAnswer and announceGameIntro has
\* responseLength 'short' or 'medium', never 'long'.
C25_ShortOrMedium ==
    (/\ last.op \in {"celebrateCorrectAnswer", "handleIncorrectAnswer", "announceGameIntro"}
     /\ last.request # Null
     /\ last.arg = "") =>
        last.request[1].responseLength \in {"short", "medium"}

\* C26: for every persona id initialize accepted and every game phase the fallback
\* lookup returns a non-empty string, the line of the current persona's table when
\* the persona is one of the four, of riley's table otherwise, and the generic
\* phrase when the phase has no entry; the character lookup returns riley's
\* profile for an id that is none of the four.
C26_TotalLookups ==
    /\ last.op = "getFallbackResponse" =>
          LET table == IF currentPersonality \in KnownPersonas
                       THEN currentPersonality
                       ELSE "riley"
          IN  /\ last.returned # ""
              /\ last.returned =
                    (IF last.arg \in TablePhases
                     THEN GetFallbackResponse(table, last.arg, last.parts[1], last.parts[2])
                     ELSE "Great job playing!")
    /\ (last.op = "getCharacterInfo" /\ last.arg \notin KnownPersonas) =>
          last.parts = <<"Riley", "(microphone)", "energetic">>

\* C27: a round record is created once and never changed: a step that records a
\* round appends one record whose roundNumber is currentRound as the step has
\* advanced it, keeps the records before it as they were (all but the oldest when
\* there were five), and every other step that does not start a new game leaves
\* recentRounds as it is.
C27_RecordsImmutable ==
    [][(HasContext /\ ~NewGameStep) =>
         /\ gameContext' # Null
         /\ LET old == gameContext[1].recentRounds
                new == gameContext'[1].recentRounds
            IN  IF RoundStep
                THEN /\ new # <<>>
                     /\ new[Len(new)].roundNumber = gameContext[1].currentRound + 1
                     /\ new[Len(new)].roundNumber = gameContext'[1].currentRound
                     /\ SubSeq(new, 1, Len(new) - 1) =
                            (IF Len(old) = HistoryLimit THEN Tail(old) ELSE old)
                ELSE new = old]_vars

\* the record of round 2 has been kept as it was recorded while four rounds with
\* other scores followed it, and the record of round 1 was evicted
C27_Witness ==
    /\ HasContext
    /\ gameContext[1].currentRound = 6
    /\ Len(roundLog) = 6
    /\ gameContext[1].recentRounds[1] = roundLog[2]
    /\ gameContext[1].recentRounds[1].roundNumber = 2
    /\ gameContext[1].recentRounds[1].playerScore # gameContext[1].playerScore

\* the operations that only read the context
ReadingOps ==
    {"initialize", "setResponseRate", "testResponseLimiter", "getStatus",
     "getGameContext", "getContextSummary", "introduceQuestion", "handleGameEnd"}

\* the step just taken was addAIResponse, directly or at the end of one of the
\* three event operations that call it
ResponseStep ==
    \/ last'.op = "addAIResponse"
    \/ /\ last'.step = "resume"
       /\ last'.op \in {"celebrateCorrectAnswer", "handleIncorrectAnswer",
                        "announceGameIntro"}

\* the fields of a context but its recentAIResponses
SetupOf(ctx) == <<ctx.playlistName, ctx.playerName, ctx.totalQuestions>>

\* C28: a context appears or is replaced only in a step of startNewGame or of an
\* initialized announceGameIntro; any other change of it is made by addRoundResult,
\* which keeps the game's setup and the recorded responses, or by addAIResponse,
\* which changes recentAIResponses only; a step of initialize, setResponseRate,
\* testResponseLimiter, getStatus, getGameContext, getContextSummary,
\* introduceQuestion or handleGameEnd leaves the context as it is.
C28_ContextFrame ==
    [][/\ last'.op \in ReadingOps => gameContext' = gameContext
       /\ (gameContext' # gameContext /\ ~NewGameStep) =>
             /\ gameContext # Null
             /\ gameContext' # Null
             /\ \/ /\ RoundStep
                   /\ SetupOf(gameContext'[1]) = SetupOf(gameContext[1])
                   /\ gameContext'[1].recentAIResponses = gameContext[1].recentAIResponses
                \/ /\ ResponseStep
                   /\ gameContext' =
                         Some([gameContext[1] EXCEPT
                                   !.recentAIResponses = gameContext'[1].recentAIResponses])
      ]_vars

\* introduceQuestion has returned a generated text in a game with a recorded round,
\* and the context holds the round and no response
C28_Witness ==
    /\ last.op = "introduceQuestion"
    /\ last.step = "resume"
    /\ last.result # Null
    /\ last.result[1].success
    /\ HasContext
    /\ gameContext[1].currentRound = 1
    /\ gameContext[1].recentAIResponses = <<>>

\* C29: in every state with an active context the rounds counted as correct and
\* the rounds counted as incorrect add up to currentRound.
C29_CountsAddUp ==
    HasContext =>
        gameContext[1].correctCount + gameContext[1].incorrectCount
            = gameContext[1].currentRound

\* seven rounds were recorded, three of them correct and four incorrect
C29_Witness ==
    /\ HasContext
    /\ gameContext[1].currentRound = 7
    /\ gameContext[1].correctCount = 3
    /\ gameContext[1].incorrectCount = 4

\* C30: in every state with an active context recentRounds has min(currentRound, 5)
\* entries and their roundNumbers are, in order, the consecutive numbers that end
\* with currentRound: max(1, currentRound - 4) .. currentRound.
C30_RecentRoundNumbers ==
    HasContext =>
        LET ctx == gameContext[1]
            n == Len(ctx.recentRounds)
        IN  /\ n = Min(ctx.currentRound, 5)
            /\ \A i \in 1..n :
                  ctx.recentRounds[i].roundNumber = Max(1, ctx.currentRound - 4) + i - 1
            /\ \A i \in 1..(n - 1) :
                  ctx.recentRounds[i + 1].roundNumber = ctx.recentRounds[i].roundNumber + 1
            /\ n > 0 => ctx.recentRounds[n].roundNumber = ctx.currentRound

\* six rounds were recorded and the history holds rounds 2 to 6
C30_Witness ==
    /\ HasContext
    /\ gameContext[1].currentRound = 6
    /\ Len(gameContext[1].recentRounds) = 5
    /\ gameContext[1].recentRounds[1].roundNumber = 2
    /\ gameContext[1].recentRounds[5].roundNumber = 6

\* the length of the run of correct rounds that ends the sequence of rounds
RECURSIVE TrailingRun(_)
TrailingRun(rounds) ==
    IF rounds = <<>> \/ ~rounds[Len(rounds)].isCorrect
    THEN 0
    ELSE 1 + TrailingRun(SubSeq(rounds, 1, Len(rounds) - 1))

\* the length of the longest run of correct rounds in the sequence of rounds
RECURSIVE LongestRun(_)
LongestRun(rounds) ==
    IF rounds = <<>>
    THEN 0
    ELSE Max(TrailingRun(rounds), LongestRun(SubSeq(rounds, 1, Len(rounds) - 1)))

\* C31: after any sequence of rounds recorded in one game currentStreak is the
\* length of the run of correct rounds that ends the sequence and longestStreak the
\* length of the longest run of correct rounds in it; longestStreak is at most
\* correctCount and no step within a game lowers it.
C31_StreaksAreRuns ==
    /\ [](HasContext =>
            /\ gameContext[1].currentStreak = TrailingRun(roundLog)
            /\ gameContext[1].longestStreak = LongestRun(roundLog)
            /\ gameContext[1].longestStreak <= gameContext[1].correctCount)
    /\ [][(HasContext /\ ~NewGameStep) =>
            /\ gameContext' # Null
            /\ gameContext'[1].longestStreak >= gameContext[1].longestStreak]_vars

\* seven rounds with runs of three, one and one correct rounds, the last one
\* ending the sequence
C31_Witness ==
    /\ HasContext
    /\ Len(roundLog) = 7
    /\ gameContext[1].currentStreak = 1
    /\ gameContext[1].longestStreak = 3
    /\ gameContext[1].correctCount = 5

\* C32: with several event operations and handleAnswer calls suspended at once
\* and resuming in any order, every state with an active context has
\* longestStreak >= currentStreak, correctCount + incorrectCount = currentRound
\* and at most 5 entries in each history.
C32_InvariantsUnderOverlap ==
    HasContext =>
        /\ gameContext[1].longestStreak >= gameContext[1].currentStreak
        /\ gameContext[1].correctCount + gameContext[1].incorrectCount
               = gameContext[1].currentRound
        /\ Len(gameContext[1].recentRounds) <= HistoryLimit
        /\ Len(gameContext[1].recentAIResponses) <= HistoryLimit

\* two calls are suspended at once, six rounds were recorded and six responses
\* accepted in the game: both histories have evicted an entry
C32_Witness ==
    /\ HasContext
    /\ Len(inflight) = 2
    /\ Len(roundLog) = 6
    /\ Len(responseLog) = 6
    /\ Len(gameContext[1].recentRounds) = 5
    /\ Len(gameContext[1].recentAIResponses) = 5
    /\ gameContext[1].longestStreak > gameContext[1].currentStreak

\* C33: a response to a call that was issued before the current game began is not
\* recorded into the current game's recentAIResponses: the step that resumes such a
\* call leaves the history as it is.
C33_NoStaleResponse ==
    [][(last'.step = "resume" /\ last'.stale /\ HasContext) =>
         /\ gameContext' # Null
         /\ gameContext'[1].recentAIResponses = gameContext[1].recentAIResponses]_vars

\* C34: the result of an event operation has noResponse=true exactly when the
\* limiter trial of the call failed, and then success=true and no error; the
\* not-initialized result and the result after a generateResponse that threw or
\* returned success=false have success=false and no noResponse flag.
C34_SkipIsNotFailure ==
    (last.op \in EventOps /\ last.result # Null) =>
        /\ last.result[1].noResponse <=> last.trial = "fail"
        /\ last.result[1].noResponse =>
              (last.result[1].success /\ last.result[1].error = "")
        /\ (last.step = "call" /\ last.trial = "none") =>
              (~last.result[1].success /\ ~last.result[1].noResponse)
        /\ (last.step = "resume" /\ GenerationFailed(last.service)) =>
              (~last.result[1].success /\ ~last.result[1].noResponse)

\* handleIncorrectAnswer was skipped by the limiter
C34_Witness ==
    /\ initialized
    /\ last.op = "handleIncorrectAnswer"
    /\ last.trial = "fail"
    /\ last.result # Null
    /\ last.result[1].noResponse
    /\ last.result[1].success

\* C35: the call of an initialized announceGameIntro leaves a fresh context (round
\* 0, counters 0, empty histories, the playlist of the call) in the state in which
\* its generateResponse call is pending, and its resumption leaves the context as
\* it is when that call threw or returned success=false; the call of an
\* uninitialized announceGameIntro leaves the context, or its absence, as it is.
C35_IntroStartsGame ==
    [][(variant = "context" /\ last'.op = "announceGameIntro") =>
         IF last'.step = "resume"
         THEN GenerationFailed(last'.service) => gameContext' = gameContext
         ELSE IF initialized
         THEN /\ last'.external = "generateResponse"
              /\ inflight' # <<>>
              /\ gameContext' # Null
              /\ gameContext'[1].playlistName = inflight'[Len(inflight')].playlistName
              /\ gameContext'[1].currentRound = 0
              /\ gameContext'[1].correctCount = 0
              /\ gameContext'[1].incorrectCount = 0
              /\ gameContext'[1].currentStreak = 0
              /\ gameContext'[1].longestStreak = 0
              /\ gameContext'[1].playerScore = 0
              /\ gameContext'[1].opponentScore = 0
              /\ gameContext'[1].recentRounds = <<>>
              /\ gameContext'[1].recentAIResponses = <<>>
         ELSE /\ last'.external = "none"
              /\ gameContext' = gameContext]_vars

\* the generateResponse call of an announceGameIntro threw and the context the
\* call created is in place, with no round and no response
C35_Witness ==
    /\ last.op = "announceGameIntro"
    /\ last.step = "resume"
    /\ last.service # Null
    /\ last.service[1].kind = "throw"
    /\ HasContext
    /\ gameContext[1].currentRound = 0
    /\ gameContext[1].recentAIResponses = <<>>
    /\ roundLog = <<>>

\* C36: the streakCount of a celebrateCorrectAnswer request is the context's
\* currentStreak when that is positive and 1 when there is no context or the
\* streak is 0; for a correct answer handled by handleAnswer on an active context
\* it is the length of the run of correct rounds ending with the round just
\* recorded.
C36_StreakCountSent ==
    (last.op = "celebrateCorrectAnswer" /\ last.request # Null) =>
        /\ last.request[1].streakCount =
              (IF HasContext /\ gameContext[1].currentStreak > 0
               THEN gameContext[1].currentStreak
               ELSE 1)
        /\ (last.caller = "handleAnswer" /\ HasContext) =>
              last.request[1].streakCount = TrailingRun(roundLog)

\* handleAnswer has recorded the second correct round in a row and sent a streak
\* count of 2
C36_Witness ==
    /\ last.op = "celebrateCorrectAnswer"
    /\ last.caller = "handleAnswer"
    /\ last.request # Null
    /\ last.request[1].streakCount = 2
    /\ Len(roundLog) = 2

\* C37: when an initialize call returns, the initialized flag is the value it
\* returned; a call that returns false (persona 'none', an unsuccessful or a
\* throwing aiHostService.initialize) leaves the current persona, the response
\* rate and the game context as they were, and the call of an event operation on
\* the uninitialized orchestrator returns the not-initialized result.
C37_FailedInitialize ==
    /\ [][(last'.op = "initialize" /\ last'.returned # "none") =>
            /\ initialized' = (last'.returned = "true")
            /\ last'.returned = "false" =>
                  /\ currentPersonality' = currentPersonality
                  /\ responseRate' = responseRate
                  /\ gameContext' = gameContext]_vars
    /\ []((last.op \in EventOps /\ last.step = "call" /\ ~initialized) =>
            last.result = Some(NotInitializedResult(last.op)))

\* an orchestrator that had been initialized as jordan was initialized again;
\* aiHostService.initialize threw, and it is uninitialized and still jordan
C37_Witness ==
    /\ last.op = "initialize"
    /\ last.step = "resume"
    /\ last.service # Null
    /\ last.service[1].kind = "throw"
    /\ last.returned = "false"
    /\ ~initialized
    /\ currentPersonality = "jordan"

\* the step just taken ended an event operation without a generated text: in the
\* not-initialized return, or after a generateResponse that threw, returned
\* success=false or returned an empty text
EndsWithoutText ==
    /\ last'.op \in EventOps
    /\ last'.result # Null
    /\ \/ last'.step = "call" /\ last'.trial = "none"
       \/ /\ last'.step = "resume"
          /\ (GenerationFailed(last'.service) \/ last'.service[1].text = "")

Tenths(score) == CHOOSE c \in -1..4 : 10 * c <= score /\ score < 10 * c + 10

\* the scenario of handleGameEnd that names count correct answers
GameEndTextWith(g, count) ==
    g.playerName \o " finished the " \o g.playlistName \o " playlist! They got "
    \o ToString(count) \o " questions correct out of " \o ToString(g.totalQuestions)
    \o " total questions, earning " \o ToString(g.finalScore)
    \o " points. Celebrate their performance!"

\* the points earned in the rounds
RECURSIVE SumPoints(_)
SumPoints(rounds) ==
    IF rounds = <<>> THEN 0
    ELSE rounds[Len(rounds)].pointsEarned + SumPoints(SubSeq(rounds, 1, Len(rounds) - 1))

\* the step just taken was one of handleGameEnd, and the request its call sent or
\* the text it returned after generateResponse threw names floor(finalScore / 10)
\* correct answers
GameEndReports ==
    /\ last'.op = "handleGameEnd"
    /\ IF last'.step = "call"
       THEN /\ last'.request # Null =>
                 LET p == inflight'[Len(inflight')]
                 IN  \E g \in FinalScoreInputs :
                        /\ g.finalScore = p.finalScore
                        /\ last'.request[1].scenario =
                               GameEndTextWith(g, Tenths(p.finalScore))
       ELSE /\ last'.service[1].kind = "throw" =>
                 \E i \in 1..Len(inflight) :
                    /\ inflight[i].op = "handleGameEnd"
                    /\ inflight' = Without(inflight, i)
                    /\ last'.result[1].text =
                           GetFallbackGameEndResponse(currentPersonality,
                                                      Tenths(inflight[i].finalScore),
                                                      inflight[i].totalQuestions,
                                                      inflight[i].finalScore)

\* C39 as stated: the number of correct answers in the scenario and in the fallback
\* text of handleGameEnd is floor(finalScore / 10), whatever the context's
\* correctCount; and when the final score is the sum of the points of the rounds,
\* that number equals correctCount only if every correct round was worth exactly
\* 10 points.
C39_AgreeOnlyAtTen ==
    /\ [][last'.op = "handleGameEnd" => GameEndReports]_vars
    /\ []((/\ last.op = "handleGameEnd"
           /\ last.request # Null
           /\ HasContext
           /\ inflight # <<>>
           /\ inflight[Len(inflight)].finalScore = SumPoints(roundLog)
           /\ Tenths(SumPoints(roundLog)) = gameContext[1].correctCount) =>
              \A i \in 1..Len(roundLog) :
                  roundLog[i].isCorrect => roundLog[i].pointsEarned = 10)

\* C39 (amended): the number of correct answers in the scenario and in the fallback
\* text of handleGameEnd is floor(finalScore / 10) for every final score, whatever
\* the context's correctCount.
C39_FloorOfFinalScore ==
    [][last'.op = "handleGameEnd" => GameEndReports]_vars

\* handleGameEnd was called with 35 points in a game with one correct round: the
\* scenario names 3 correct answers
C39_Witness ==
    /\ last.op = "handleGameEnd"
    /\ last.request # Null
    /\ inflight # <<>>
    /\ inflight[Len(inflight)].finalScore = 35
    /\ HasContext
    /\ gameContext[1].correctCount = 1
    /\ last.request[1].scenario =
          "Ava finished the 80s Hits playlist! They got 3 questions correct out of 5 total questions, earning 35 points. Celebrate their performance!"

====
